---- MODULE Spec2Model ----
(***************************************************************************)
(* A model of the scheduling API (PBLBot/scheduling-api): the resolution   *)
(* of a free-form scheduling phrase into future instants.                  *)
(*                                                                         *)
(* Strings are sequences of one-character strings, and the regular         *)
(* expressions of the source are matched character by character.  Instants *)
(* are seconds since 2025-01-01T00:00:00Z; the calendar covers the years   *)
(* 2025..2027, none of which is a leap year.                               *)
(***************************************************************************)
EXTENDS Integers, Sequences, FiniteSets, TLC

VARIABLES
    text,                \* the text of the request
    phrase,              \* the parts the text was composed of
    now,                 \* what new Date() gives: the instant of the request
    localOffset,         \* the zone of the server process, minutes east of UTC
    chronoResults,       \* what chrono.parse gives for the text
    pc,                  \* how far the request has been handled
    processedText,       \* preprocessText(originalText)
    detectedTimezone,    \* detectTimezone(text)
    multipleDaysResult,  \* parseMultipleDays(text, detectedTimezone)
    dateRangeResult,     \* parseDateRange(text, detectedTimezone)
    startResult,         \* processChronoDate(result.start, ...)
    endResult,           \* processChronoDate(result.end, ...)
    calls,               \* the functions the handler has called, in order
    response             \* the body given to res.json

\* the request, which no step changes
request == <<text, phrase, now, localOffset, chronoResults>>

vars == <<request, pc, processedText, detectedTimezone, multipleDaysResult, dateRangeResult,
          startResult, endResult, calls, response>>

(***************************************************************************)
(* Strings                                                                 *)
(***************************************************************************)
Digits == <<"0","1","2","3","4","5","6","7","8","9">>

Lowercase == <<"a","b","c","d","e","f","g","h","i","j","k","l","m",
               "n","o","p","q","r","s","t","u","v","w","x","y","z">>

Uppercase == <<"A","B","C","D","E","F","G","H","I","J","K","L","M",
               "N","O","P","Q","R","S","T","U","V","W","X","Y","Z">>

Range(s) == {s[i] : i \in DOMAIN s}

DigitChars == Range(Digits)

\* \w of a JavaScript regular expression: [A-Za-z0-9_]
WordChars == Range(Lowercase) \cup Range(Uppercase) \cup Range(Digits) \cup {"_"}

IsDigit(c) == c \in DigitChars

IsWordChar(c) == c \in WordChars

\* \s, for the one whitespace character the texts of the model hold
IsSpace(c) == c = " "

DigitValues == [c \in DigitChars |-> CHOOSE d \in 0..9 : Digits[d + 1] = c]

DigitValue(c) == DigitValues[c]

LowerOfUpper == [c \in Range(Uppercase) |->
                    Lowercase[CHOOSE i \in DOMAIN Uppercase : Uppercase[i] = c]]

\* String.prototype.toLowerCase, on one character
LowerChar(c) == IF c \in DOMAIN LowerOfUpper THEN LowerOfUpper[c] ELSE c

toLowerCase(s) == [i \in DOMAIN s |-> LowerChar(s[i])]

RECURSIVE Concat(_)
Concat(parts) == IF parts = <<>> THEN <<>> ELSE Head(parts) \o Concat(Tail(parts))

\* the literal lit occurs in s at index i
LitAt(s, i, lit) ==
    /\ i >= 1
    /\ i + Len(lit) - 1 <= Len(s)
    /\ \A k \in 1..Len(lit) : s[i + k - 1] = lit[k]

\* String.prototype.includes
Includes(s, lit) == \E i \in 1..(Len(s) + 1) : LitAt(s, i, lit)

\* String.prototype.startsWith
StartsWith(s, lit) == LitAt(s, 1, lit)

\* \b at index i: between s[i-1] and s[i], exactly one is a word character
WordBoundary(s, i) ==
    LET before == i > 1 /\ i - 1 <= Len(s) /\ IsWordChar(s[i - 1])
        after  == i >= 1 /\ i <= Len(s) /\ IsWordChar(s[i])
    IN  before # after

\* the index after a greedy \s* that starts at index i
RECURSIVE SkipSpaces(_, _)
SkipSpaces(s, i) ==
    IF i <= Len(s) /\ IsSpace(s[i]) THEN SkipSpaces(s, i + 1) ELSE i

DigitAt(s, i) == i >= 1 /\ i <= Len(s) /\ IsDigit(s[i])

\* parseInt of a string of decimal digits
RECURSIVE DigitsToInt(_)
DigitsToInt(s) ==
    IF s = <<>> THEN 0
    ELSE 10 * DigitsToInt(SubSeq(s, 1, Len(s) - 1)) + DigitValue(s[Len(s)])

\* parseInt of an optionally signed decimal string
parseInt(s) ==
    IF s # <<>> /\ s[1] = "-" THEN 0 - DigitsToInt(Tail(s))
    ELSE IF s # <<>> /\ s[1] = "+" THEN DigitsToInt(Tail(s))
    ELSE DigitsToInt(s)

RECURSIVE NatToStr(_)
NatToStr(n) ==
    IF n < 10 THEN <<Digits[n + 1]>>
    ELSE NatToStr(n \div 10) \o <<Digits[(n % 10) + 1]>>

\* the decimal text a template literal `${n}` gives an integer
IntToStr(n) == IF n < 0 THEN <<"-">> \o NatToStr(0 - n) ELSE NatToStr(n)

\* String(n).padStart(2, '0')
Pad2(n) == IF n < 10 THEN <<"0">> \o NatToStr(n) ELSE NatToStr(n)

\* null and undefined; like them, the empty sequence is falsy
NULL == <<>>

\* what an expander returns: null, or an array of entries
NullResult == [isNull |-> TRUE, items |-> <<>>]

ArrayResult(items) == [isNull |-> FALSE, items |-> items]

(***************************************************************************)
(* detectTimezone: the offset patterns                                     *)
(***************************************************************************)
S_utc == <<"u","t","c">>
S_gmt == <<"g","m","t">>
S_UTC_OFFSET == <<"U","T","C","_","O","F","F","S","E","T","_">>

(* One offset pattern of the source, as the parts all ten are built from: *)
(*   \b  zone  gap  ([+-]) \s*  (\d{1,2})  tail  \b                        *)
(* zone: the alternatives of the zone word (none for a standalone offset); *)
(* zoneGroup: the zone word is a capture group, (utc|gmt);                 *)
(* gap: "plus" for \s+, "star" for \s*, "none";                            *)
(* sign: the pattern holds ([+-]) followed by \s* (signGap);               *)
(* tail: "colon"    :(\d{2})                                               *)
(*       "optional" (?::?(\d{2}))?                                         *)
(*       "required" (?::?(\d{2}))                                          *)
(*       "nodigit"  (?!\d)                                                 *)
(*       "none"                                                            *)
Pat(zone, zoneGroup, gap, sign, signGap, tail, hasSign) ==
    [zone |-> zone, zoneGroup |-> zoneGroup, gap |-> gap, sign |-> sign,
     signGap |-> signGap, tail |-> tail, hasSign |-> hasSign]

offsetPatterns == <<
    Pat(<<S_utc, S_gmt>>, TRUE,  "plus", FALSE, FALSE, "colon",    FALSE),
    Pat(<<S_utc, S_gmt>>, TRUE,  "plus", FALSE, FALSE, "nodigit",  FALSE),
    Pat(<<S_utc>>,        FALSE, "plus", TRUE,  TRUE,  "colon",    TRUE),
    Pat(<<S_utc>>,        FALSE, "plus", TRUE,  TRUE,  "nodigit",  TRUE),
    Pat(<<S_utc>>,        FALSE, "star", TRUE,  TRUE,  "optional", TRUE),
    Pat(<<S_gmt>>,        FALSE, "plus", TRUE,  TRUE,  "colon",    TRUE),
    Pat(<<S_gmt>>,        FALSE, "plus", TRUE,  TRUE,  "nodigit",  TRUE),
    Pat(<<S_gmt>>,        FALSE, "star", TRUE,  TRUE,  "optional", TRUE),
    Pat(<<>>,             FALSE, "none", TRUE,  FALSE, "required", TRUE),
    Pat(<<>>,             FALSE, "none", TRUE,  FALSE, "none",     TRUE) >>

NoMatch == [found |-> FALSE, groups |-> <<NULL, NULL, NULL>>]

Match(groups) == [found |-> TRUE, groups |-> groups]

\* the minutes group of (?::?(\d{2})) at index k: where it ends, 0 when it fails
MinutesGroupEnd(s, k) ==
    IF k <= Len(s) /\ s[k] = ":"
    THEN (IF DigitAt(s, k + 1) /\ DigitAt(s, k + 2) THEN k + 3 ELSE 0)
    ELSE (IF DigitAt(s, k) /\ DigitAt(s, k + 1) THEN k + 2 ELSE 0)

\* the tail :(\d{2}) at index k: where it ends, 0 when it fails
ColonMinutesEnd(s, k) ==
    IF k <= Len(s) /\ s[k] = ":" /\ DigitAt(s, k + 1) /\ DigitAt(s, k + 2)
    THEN k + 3 ELSE 0

\* the minutes captured by a group that ends at index e, when \b holds there
MinutesBefore(s, e) ==
    IF e # 0 /\ WordBoundary(s, e) THEN SubSeq(s, e - 2, e - 1) ELSE <<"fail">>

(* The rest of a pattern once the hours (\d{1,2}) have ended before index  *)
(* k: the captured minutes when the tail and the closing \b match (NULL    *)
(* when none are captured), "fail" otherwise.  An optional minutes group   *)
(* is tried first and given up when the match cannot be completed with it. *)
TailMatch(s, k, tail) ==
    CASE tail = "colon"    -> MinutesBefore(s, ColonMinutesEnd(s, k))
      [] tail = "required" -> MinutesBefore(s, MinutesGroupEnd(s, k))
      [] tail = "optional" ->
            IF MinutesBefore(s, MinutesGroupEnd(s, k)) # <<"fail">>
            THEN MinutesBefore(s, MinutesGroupEnd(s, k))
            ELSE IF WordBoundary(s, k) THEN NULL ELSE <<"fail">>
      [] tail = "nodigit"  ->
            IF ~DigitAt(s, k) /\ WordBoundary(s, k) THEN NULL ELSE <<"fail">>
      [] OTHER ->
            IF WordBoundary(s, k) THEN NULL ELSE <<"fail">>

\* the groups of a completed match: (utc|gmt) or ([+-]), then hours and minutes
MatchGroups(p, zoneLit, signLit, hours, minutes) ==
    IF minutes = <<"fail">> THEN NoMatch
    ELSE Match(IF p.zoneGroup THEN <<zoneLit, hours, minutes>>
               ELSE <<signLit, hours, minutes>>)

\* (\d{1,2}) taking one digit at index h, then the tail
MatchHours1(s, p, zoneLit, signLit, h) ==
    IF DigitAt(s, h)
    THEN MatchGroups(p, zoneLit, signLit, SubSeq(s, h, h), TailMatch(s, h + 1, p.tail))
    ELSE NoMatch

\* (\d{1,2}) is greedy: two digits first, one digit when the tail fails after two
MatchHours(s, p, zoneLit, signLit, h) ==
    IF DigitAt(s, h) /\ DigitAt(s, h + 1) /\ TailMatch(s, h + 2, p.tail) # <<"fail">>
    THEN MatchGroups(p, zoneLit, signLit, SubSeq(s, h, h + 1), TailMatch(s, h + 2, p.tail))
    ELSE MatchHours1(s, p, zoneLit, signLit, h)

\* ([+-])\s* at index j, for the patterns that hold a sign
MatchSign(s, p, zoneLit, j) ==
    IF ~p.sign THEN MatchHours(s, p, zoneLit, NULL, j)
    ELSE IF j <= Len(s) /\ s[j] \in {"+", "-"}
    THEN MatchHours(s, p, zoneLit, <<s[j]>>,
                    IF p.signGap THEN SkipSpaces(s, j + 1) ELSE j + 1)
    ELSE NoMatch

\* \s+ or \s* at index j
MatchGap(s, p, zoneLit, j) ==
    IF p.gap = "none" THEN MatchSign(s, p, zoneLit, j)
    ELSE IF p.gap = "plus" /\ SkipSpaces(s, j) = j THEN NoMatch
    ELSE MatchSign(s, p, zoneLit, SkipSpaces(s, j))

\* the zone word of the pattern that occurs at index i, "fail" when none does
ZoneLitAt(s, i, p) ==
    IF p.zone = <<>> THEN <<>>
    ELSE IF \E z \in DOMAIN p.zone : LitAt(s, i, p.zone[z])
    THEN p.zone[CHOOSE z \in DOMAIN p.zone : LitAt(s, i, p.zone[z])]
    ELSE <<"fail">>

MatchZone(s, i, p, zoneLit) ==
    IF zoneLit = <<"fail">> THEN NoMatch ELSE MatchGap(s, p, zoneLit, i + Len(zoneLit))

\* the pattern p matched with its first character at index i
MatchAt(s, i, p) ==
    IF WordBoundary(s, i) THEN MatchZone(s, i, p, ZoneLitAt(s, i, p)) ELSE NoMatch

\* String.prototype.match without the g flag: the leftmost match
RECURSIVE MatchFrom(_, _, _)
MatchFrom(s, i, p) ==
    IF i > Len(s) THEN NoMatch
    ELSE IF MatchAt(s, i, p).found THEN MatchAt(s, i, p)
    ELSE MatchFrom(s, i + 1, p)

StrMatch(s, p) == MatchFrom(s, 1, p)

(***************************************************************************)
(* detectTimezone                                                          *)
(***************************************************************************)
\* the zone table, ./timezoneMap.json: alias -> zone identifier, in file order
timezoneMap == <<
    [key |-> <<"a","u","s","t","r","a","l","i","a">>,
     timezone |-> <<"A","u","s","t","r","a","l","i","a","/","S","y","d","n","e","y">>],
    [key |-> <<"n","e","t","h","e","r","l","a","n","d","s">>,
     timezone |-> <<"E","u","r","o","p","e","/","A","m","s","t","e","r","d","a","m">>],
    [key |-> <<"e","s","t">>,
     timezone |-> <<"A","m","e","r","i","c","a","/","N","e","w","_","Y","o","r","k">>] >>

\* OffsetRejected with the upper limit itself rejected
OffsetRejected_AtLimit(sign, hours, minutes) ==
    \/ hours >= 14
    \/ (hours > 12 /\ sign = <<"-">>)

\* the validation of a captured offset: `continue` when it is out of range
OffsetRejected(sign, hours, minutes) ==
    \/ hours > 14
    \/ (hours = 14 /\ minutes > 0)
    \/ (hours > 12 /\ sign = <<"-">>)

\* sign = match[1] || '+', and '+' for a pattern without a sign
MatchSignOf(m, hasSign) ==
    IF hasSign /\ m.groups[1] # NULL THEN m.groups[1] ELSE <<"+">>

\* hours = parseInt(match[2])
MatchHoursOf(m) == parseInt(m.groups[2])

\* minutes = match[3] ? parseInt(match[3]) : 0
MatchMinutesOf(m) == IF m.groups[3] # NULL THEN parseInt(m.groups[3]) ELSE 0

\* offsetMinutes = sign === '+' ? totalMinutes : -totalMinutes
OffsetMinutesOf(sign, hours, minutes) ==
    IF sign = <<"+">> THEN (hours * 60) + minutes ELSE 0 - ((hours * 60) + minutes)

\* OffsetOfMatch with the captured sign dropped
OffsetOfMatch_Unsigned(m, hasSign) ==
    [rejected |-> OffsetRejected(<<"+">>, MatchHoursOf(m), MatchMinutesOf(m)),
     value |-> S_UTC_OFFSET \o
               IntToStr(OffsetMinutesOf(<<"+">>, MatchHoursOf(m), MatchMinutesOf(m)))]

\* the body of the loop over offsetPatterns for one match
OffsetOfMatch(m, hasSign) ==
    [rejected |-> OffsetRejected(MatchSignOf(m, hasSign), MatchHoursOf(m), MatchMinutesOf(m)),
     value |-> S_UTC_OFFSET \o
               IntToStr(OffsetMinutesOf(MatchSignOf(m, hasSign), MatchHoursOf(m),
                                        MatchMinutesOf(m)))]

\* the loop body once the pattern has been matched against the text
OffsetStep(lowerText, k, m, hasSign) ==
    IF ~m.found THEN NULL
    ELSE IF OffsetOfMatch(m, hasSign).rejected THEN NULL
    ELSE OffsetOfMatch(m, hasSign).value

\* for (const { pattern, hasSign } of offsetPatterns), from the k-th pattern on
RECURSIVE OffsetScan(_, _)
OffsetScan(lowerText, k) ==
    IF k > Len(offsetPatterns) THEN NULL
    ELSE IF OffsetStep(lowerText, k, StrMatch(lowerText, offsetPatterns[k]),
                       offsetPatterns[k].hasSign) # NULL
    THEN OffsetStep(lowerText, k, StrMatch(lowerText, offsetPatterns[k]),
                    offsetPatterns[k].hasSign)
    ELSE OffsetScan(lowerText, k + 1)

\* AliasTest without the word boundaries
AliasTest_Substring(lowerText, key) == Includes(lowerText, toLowerCase(key))

\* new RegExp(`\\b${key}\\b`, 'i').test(lowerText)
AliasTest(lowerText, key) ==
    LET k == toLowerCase(key)
    IN  \E i \in 1..Len(lowerText) :
            /\ lowerText[i] = k[1]
            /\ WordBoundary(lowerText, i)
            /\ LitAt(lowerText, i, k)
            /\ WordBoundary(lowerText, i + Len(k))

\* for (const [key, timezone] of Object.entries(timezoneMap)), from entry k on
RECURSIVE ZoneScan(_, _)
ZoneScan(lowerText, k) ==
    IF k > Len(timezoneMap) THEN NULL
    ELSE IF AliasTest(lowerText, timezoneMap[k].key) THEN timezoneMap[k].timezone
    ELSE ZoneScan(lowerText, k + 1)

\* detectTimezone with the zone table scanned before the offset patterns
detectTimezone_ZoneFirst(t) ==
    IF ZoneScan(toLowerCase(t), 1) # NULL THEN ZoneScan(toLowerCase(t), 1)
    ELSE OffsetScan(toLowerCase(t), 1)

\* the two phases on the lower-cased text: offsets, then the zone table
DetectInLowerText(lowerText, offset) ==
    IF offset # NULL THEN offset ELSE ZoneScan(lowerText, 1)

detectTimezone(t) == DetectInLowerText(toLowerCase(t), OffsetScan(toLowerCase(t), 1))

\* detectedTimezone.startsWith('UTC_OFFSET_')
IsManualOffset(tz) == StartsWith(tz, S_UTC_OFFSET)

\* parseInt(detectedTimezone.replace('UTC_OFFSET_', ''))
ManualOffsetMinutes(tz) == parseInt(SubSeq(tz, Len(S_UTC_OFFSET) + 1, Len(tz)))

(***************************************************************************)
(* Date: instants, the server's local calendar fields, luxon's zones       *)
(***************************************************************************)
\* the lengths of the months of a year of the calendar
MonthLengths == <<31, 28, 31, 30, 31, 30, 31, 31, 30, 31, 30, 31>>

RECURSIVE DaysBeforeMonth(_)
DaysBeforeMonth(m) == IF m <= 1 THEN 0 ELSE DaysBeforeMonth(m - 1) + MonthLengths[m - 1]

DaysBefore == [m \in 1..12 |-> DaysBeforeMonth(m)]

\* the month (1..12) of each day of the year (0..364)
MonthOfDayOfYear ==
    [d \in 0..364 |-> CHOOSE m \in 1..12 : DaysBefore[m] <= d /\ d < DaysBefore[m] + MonthLengths[m]]

\* the day number (days since 2025-01-01) of a calendar date; a month outside 1..12
\* and a day outside the month carry over, as in new Date(year, month - 1, day)
DayNumber(year, month, day) ==
    ((year + ((month - 1) \div 12)) - 2025) * 365 + DaysBefore[((month - 1) % 12) + 1] + day - 1

YearOfDay(d) == 2025 + (d \div 365)

MonthOfDay(d) == MonthOfDayOfYear[d % 365]

DateOfDay(d) == (d % 365) - DaysBefore[MonthOfDay(d)] + 1

\* the local calendar day and the second of that day of an instant, for the
\* server's zone (localOffset minutes east of UTC)
LocalDay(t) == (t + (60 * localOffset)) \div 86400

LocalSecondOfDay(t) == (t + (60 * localOffset)) % 86400

\* Date.prototype.getDay, getFullYear, getMonth() + 1, getDate, getHours, ...
getDay(t) == (LocalDay(t) + 3) % 7

getFullYear(t) == YearOfDay(LocalDay(t))

getMonth1(t) == MonthOfDay(LocalDay(t))

getDate(t) == DateOfDay(LocalDay(t))

getHours(t) == LocalSecondOfDay(t) \div 3600

getMinutes(t) == (LocalSecondOfDay(t) % 3600) \div 60

getSeconds(t) == LocalSecondOfDay(t) % 60

\* the instant of a local calendar day at hours:minutes:seconds, which carry over
LocalInstant(day, hours, minutes, seconds) ==
    (day * 86400) + (hours * 3600) + (minutes * 60) + seconds - (60 * localOffset)

\* d = new Date(t); d.setDate(t.getDate() + days); d.setHours(h, m, s, 0)
SetDateAndHours(t, days, hours, minutes, seconds) ==
    LocalInstant(LocalDay(t) + days, hours, minutes, seconds)

\* d = new Date(t); d.setDate(d.getDate() + days)
AddDays(t, days) == t + (days * 86400)

\* Math.floor(date.getTime() / 1000)
unixTimestamp(t) == t

\* the zones of the zone table with luxon's offset for each, in minutes
zoneOffsets == <<
    [zone |-> <<"A","u","s","t","r","a","l","i","a","/","S","y","d","n","e","y">>, offset |-> 600],
    [zone |-> <<"E","u","r","o","p","e","/","A","m","s","t","e","r","d","a","m">>, offset |-> 60],
    [zone |-> <<"A","m","e","r","i","c","a","/","N","e","w","_","Y","o","r","k">>, offset |-> -300] >>

IsKnownZone(zone) == \E k \in DOMAIN zoneOffsets : zoneOffsets[k].zone = zone

ZoneOffset(zone) == zoneOffsets[CHOOSE k \in DOMAIN zoneOffsets : zoneOffsets[k].zone = zone].offset

\* luxon's check of the fields given to DateTime.fromObject
ValidFields(year, month, day, hour, minute, second) ==
    /\ month >= 1 /\ month <= 12
    /\ day >= 1 /\ day <= MonthLengths[month]
    /\ (hour >= 0 /\ hour <= 23) \/ (hour = 24 /\ minute = 0 /\ second = 0)
    /\ minute >= 0 /\ minute <= 59
    /\ second >= 0 /\ second <= 59

\* DateTime.fromObject({...}, { zone }).isValid
FromObjectIsValid(year, month, day, hour, minute, second, zone) ==
    IsKnownZone(zone) /\ ValidFields(year, month, day, hour, minute, second)

\* DateTime.fromObject({...}, { zone: 'UTC' }).toJSDate(): the fields read at UTC
FromObjectUTC(year, month, day, hour, minute, second) ==
    (DayNumber(year, month, day) * 86400) + (hour * 3600) + (minute * 60) + second

\* DateTime.fromObject({...}, { zone }).toJSDate(): the fields read in the zone
FromObjectInZone(year, month, day, hour, minute, second, zone) ==
    FromObjectUTC(year, month, day, hour, minute, second) - (60 * ZoneOffset(zone))

\* DateTime.fromJSDate(date, { zone: 'UTC' }).minus({ minutes }).toJSDate()
MinusMinutes(t, minutes) == t - (60 * minutes)

(***************************************************************************)
(* parseMultipleDays                                                       *)
(***************************************************************************)
\* dayMap, in the order of its keys
dayMap == <<
    [key |-> <<"m","o","n","d","a","y">>, value |-> 1],
    [key |-> <<"t","u","e","s","d","a","y">>, value |-> 2],
    [key |-> <<"w","e","d","n","e","s","d","a","y">>, value |-> 3],
    [key |-> <<"t","h","u","r","s","d","a","y">>, value |-> 4],
    [key |-> <<"f","r","i","d","a","y">>, value |-> 5],
    [key |-> <<"s","a","t","u","r","d","a","y">>, value |-> 6],
    [key |-> <<"s","u","n","d","a","y">>, value |-> 0] >>

\* dayMap[name]
DayNumOf(name) == dayMap[CHOOSE k \in DOMAIN dayMap : dayMap[k].key = name].value

\* Object.keys(dayMap)[Object.values(dayMap).indexOf(dayNum)]
DayNameOf(dayNum) ==
    dayMap[CHOOSE k \in DOMAIN dayMap :
              dayMap[k].value = dayNum /\ \A j \in 1..(k - 1) : dayMap[j].value # dayNum].key

\* (monday|tuesday|...|sunday) at index i of the lower-cased text: the name, or NULL
WeekdayAt(s, i) ==
    IF \E k \in DOMAIN dayMap : LitAt(s, i, dayMap[k].key)
    THEN dayMap[CHOOSE k \in DOMAIN dayMap : LitAt(s, i, dayMap[k].key)].key
    ELSE NULL

\* to\s+(monday|...|sunday) at index j
ToWeekdayAt(s, j) ==
    /\ LitAt(s, j, <<"t","o">>)
    /\ j + 2 <= Len(s)
    /\ IsSpace(s[j + 2])
    /\ WeekdayAt(s, SkipSpaces(s, j + 2)) # NULL

\* .*?to\s+(...) from index j on: the first index where "to <weekday>" stands, or 0
RECURSIVE LazyToWeekday(_, _)
LazyToWeekday(s, j) ==
    IF j > Len(s) THEN 0
    ELSE IF ToWeekdayAt(s, j) THEN j
    ELSE LazyToWeekday(s, j + 1)

\* \s+.*?to\s+(...) after the first weekday, which ends before index k
AfterFirstWeekday(s, k) ==
    IF k <= Len(s) /\ IsSpace(s[k]) THEN LazyToWeekday(s, SkipSpaces(s, k)) ELSE 0

\* weeklyPattern at index i: the index of its "to", or 0
WeeklyAt(s, i) ==
    IF WordBoundary(s, i) /\ WeekdayAt(s, i) # NULL
    THEN AfterFirstWeekday(s, i + Len(WeekdayAt(s, i)))
    ELSE 0

WeeklyGroups(s, i, j) ==
    [matched |-> TRUE, startDay |-> WeekdayAt(s, i), endDay |-> WeekdayAt(s, SkipSpaces(s, j + 2))]

RECURSIVE WeeklyFrom(_, _)
WeeklyFrom(s, i) ==
    IF i > Len(s) THEN [matched |-> FALSE, startDay |-> NULL, endDay |-> NULL]
    ELSE IF WeeklyAt(s, i) # 0 THEN WeeklyGroups(s, i, WeeklyAt(s, i))
    ELSE WeeklyFrom(s, i + 1)

\* text.match(weeklyPattern), with match[1] and match[2] in lower case
weeklyPattern(t) == WeeklyFrom(toLowerCase(t), 1)

\* (am|pm) at index i: the word, or NULL
MeridiemAt(s, i) ==
    IF LitAt(s, i, <<"a","m">>) THEN <<"a","m">>
    ELSE IF LitAt(s, i, <<"p","m">>) THEN <<"p","m">>
    ELSE NULL

\* :(\d{2}) at index k
TimeMinutesAt(s, k) ==
    /\ k <= Len(s)
    /\ s[k] = ":"
    /\ DigitAt(s, k + 1)
    /\ DigitAt(s, k + 2)

\* no match of the time pattern
NoTime == [matched |-> FALSE, hour |-> NULL, minute |-> NULL, meridiem |-> NULL, end |-> 0]

\* (?::(\d{2}))?\s*(am|pm) at index k, after the hour hourText; end is the index
\* after the match
TimeTail(s, k, hourText) ==
    IF TimeMinutesAt(s, k) /\ MeridiemAt(s, SkipSpaces(s, k + 3)) # NULL
    THEN [matched |-> TRUE, hour |-> hourText, minute |-> SubSeq(s, k + 1, k + 2),
          meridiem |-> MeridiemAt(s, SkipSpaces(s, k + 3)), end |-> SkipSpaces(s, k + 3) + 2]
    ELSE IF MeridiemAt(s, SkipSpaces(s, k)) # NULL
    THEN [matched |-> TRUE, hour |-> hourText, minute |-> NULL,
          meridiem |-> MeridiemAt(s, SkipSpaces(s, k)), end |-> SkipSpaces(s, k) + 2]
    ELSE NoTime

\* (\d{1,2})(?::(\d{2}))?\s*(am|pm) at index i: two digits first, then one
TimeAt(s, i) ==
    IF DigitAt(s, i) /\ DigitAt(s, i + 1) /\ TimeTail(s, i + 2, SubSeq(s, i, i + 1)).matched
    THEN TimeTail(s, i + 2, SubSeq(s, i, i + 1))
    ELSE IF DigitAt(s, i) THEN TimeTail(s, i + 1, SubSeq(s, i, i))
    ELSE NoTime

RECURSIVE TimeFrom(_, _)
TimeFrom(s, i) ==
    IF i > Len(s) THEN NoTime
    ELSE IF TimeAt(s, i).matched THEN TimeAt(s, i)
    ELSE TimeFrom(s, i + 1)

\* text.match(/(\d{1,2})(?::(\d{2}))?\s*(am|pm)/i), the meridiem in lower case
timeMatch(t) == TimeFrom(toLowerCase(t), 1)

\* parseInt(timeMatch[2]) || 0
MinuteOf(tm) == IF tm.minute = NULL THEN 0 ELSE parseInt(tm.minute)

\* the hour of the day of an hour with its meridiem
Hour24(hour, meridiem) ==
    IF meridiem = <<"p","m">> /\ hour # 12 THEN hour + 12
    ELSE IF meridiem = <<"a","m">> /\ hour = 12 THEN 0
    ELSE hour

hour24Of(tm) == Hour24(parseInt(tm.hour), tm.meridiem)

\* a walk that stops before it pushes the end weekday
RECURSIVE WalkDays_ExclusiveEnd(_, _, _)
WalkDays_ExclusiveEnd(days, currentDay, endDayNum) ==
    IF currentDay = endDayNum /\ days # <<>> THEN days
    ELSE IF Len(days) >= 7 THEN days
    ELSE WalkDays_ExclusiveEnd(Append(days, currentDay), (currentDay + 1) % 7, endDayNum)

\* the while (true) loop: days.push(currentDay), until the end weekday was pushed
RECURSIVE WalkDays(_, _, _)
WalkDays(days, currentDay, endDayNum) ==
    IF currentDay = endDayNum THEN Append(days, currentDay)
    ELSE IF Len(days) + 1 > 7 THEN Append(days, currentDay)
    ELSE WalkDays(Append(days, currentDay), (currentDay + 1) % 7, endDayNum)

\* DaysUntil with today's weekday left on today
DaysUntil_TodayKept(dayNum, currentWeekday) ==
    IF dayNum - currentWeekday < 0 THEN (dayNum - currentWeekday) + 7
    ELSE dayNum - currentWeekday

\* daysUntil = dayNum - currentWeekday; if (daysUntil <= 0) daysUntil += 7
DaysUntil(dayNum, currentWeekday) ==
    IF dayNum - currentWeekday <= 0 THEN (dayNum - currentWeekday) + 7
    ELSE dayNum - currentWeekday

\* targetDate: now's date plus daysUntil, at hour24:minute of the server's zone
TargetDate(dayNum, hour24, minute) ==
    SetDateAndHours(now, DaysUntil(dayNum, getDay(now)), hour24, minute, 0)

\* timezoneInfo: null, or the fields the entries of a series carry
NoTimezoneInfo == [isNull |-> TRUE, timezone |-> NULL, offset |-> 0, isManualOffset |-> FALSE]

\* offsetStr of a manual offset: the sign, the hours, and :mm when there are minutes
OffsetStr(offsetMinutes) ==
    LET abs == IF offsetMinutes < 0 THEN 0 - offsetMinutes ELSE offsetMinutes
        sgn == IF offsetMinutes >= 0 THEN <<"+">> ELSE <<"-">>
    IN  IF abs % 60 > 0 THEN sgn \o NatToStr(abs \div 60) \o <<":">> \o Pad2(abs % 60)
        ELSE sgn \o NatToStr(abs \div 60)

ManualTimezoneInfo(offsetMinutes) ==
    [isNull |-> FALSE, timezone |-> <<"U","T","C">> \o OffsetStr(offsetMinutes),
     offset |-> offsetMinutes, isManualOffset |-> TRUE]

ZoneTimezoneInfo(zone) ==
    [isNull |-> FALSE, timezone |-> zone, offset |-> ZoneOffset(zone), isManualOffset |-> FALSE]

\* an entry of a series: its label, the instant, the zone it was read in
DayEntry(label, finalDate, timezoneInfo) ==
    [day |-> label, jsDate |-> finalDate, timezoneInfo |-> timezoneInfo,
     unixTimestamp |-> unixTimestamp(finalDate)]

\* the entry when the zone is a manual offset: targetDate minus the offset
ManualDayEntry(label, targetDate, offsetMinutes) ==
    DayEntry(label, MinusMinutes(targetDate, offsetMinutes), ManualTimezoneInfo(offsetMinutes))

\* ZoneDayEntry with the zone reported although luxon calls the fields invalid
ZoneDayEntry_InfoKept(label, targetDate, hour24, minute, zone) ==
    IF FromObjectIsValid(getFullYear(targetDate), getMonth1(targetDate), getDate(targetDate),
                         hour24, minute, 0, zone)
    THEN DayEntry(label,
                  FromObjectInZone(getFullYear(targetDate), getMonth1(targetDate),
                                   getDate(targetDate), hour24, minute, 0, zone),
                  ZoneTimezoneInfo(zone))
    ELSE DayEntry(label, targetDate, ZoneTimezoneInfo(zone))

\* the entry when the zone is named: targetDate's calendar date at hour24:minute
\* in that zone; targetDate itself when luxon calls the fields invalid
ZoneDayEntry(label, targetDate, hour24, minute, zone) ==
    IF FromObjectIsValid(getFullYear(targetDate), getMonth1(targetDate), getDate(targetDate),
                         hour24, minute, 0, zone)
    THEN DayEntry(label,
                  FromObjectInZone(getFullYear(targetDate), getMonth1(targetDate),
                                   getDate(targetDate), hour24, minute, 0, zone),
                  ZoneTimezoneInfo(zone))
    ELSE DayEntry(label, targetDate, NoTimezoneInfo)

\* the entry of a series for targetDate: "Apply timezone if detected"
SeriesEntry(label, targetDate, hour24, minute, tz) ==
    IF tz = NULL THEN DayEntry(label, targetDate, NoTimezoneInfo)
    ELSE IF IsManualOffset(tz) THEN ManualDayEntry(label, targetDate, ManualOffsetMinutes(tz))
    ELSE ZoneDayEntry(label, targetDate, hour24, minute, tz)

\* what days.map returns for one weekday
MultipleDaysEntry(dayNum, hour24, minute, tz) ==
    SeriesEntry(DayNameOf(dayNum), TargetDate(dayNum, hour24, minute), hour24, minute, tz)

MultipleDaysEntries(days, hour24, minute, tz) ==
    [k \in DOMAIN days |-> MultipleDaysEntry(days[k], hour24, minute, tz)]

MultipleDaysOf(wm, tm, tz) ==
    ArrayResult(MultipleDaysEntries(WalkDays(<<>>, DayNumOf(wm.startDay), DayNumOf(wm.endDay)),
                                    hour24Of(tm), MinuteOf(tm), tz))

parseMultipleDays(t, tz) ==
    IF ~weeklyPattern(t).matched THEN NullResult
    ELSE IF ~timeMatch(t).matched THEN NullResult
    ELSE MultipleDaysOf(weeklyPattern(t), timeMatch(t), tz)

(***************************************************************************)
(* adjustToFuture                                                          *)
(***************************************************************************)
S_tomorrow == <<"t","o","m","o","r","r","o","w">>
S_today == <<"t","o","d","a","y">>

\* startDate = null
NoStartDate == 0 - 1

\* String.prototype.trim, for the one whitespace character of the texts
RECURSIVE TrimEnd(_)
TrimEnd(s) == IF s # <<>> /\ IsSpace(s[Len(s)]) THEN TrimEnd(SubSeq(s, 1, Len(s) - 1)) ELSE s

trim(s) == TrimEnd(SubSeq(s, SkipSpaces(s, 1), Len(s)))

\* dayOfWeekPattern.test(lowerText): a weekday name as a whole word
dayOfWeekPattern(s) ==
    \E i \in 1..Len(s) :
        /\ WordBoundary(s, i)
        /\ WeekdayAt(s, i) # NULL
        /\ WordBoundary(s, i + Len(WeekdayAt(s, i)))

\* /^\s*\d{1,2}(?::\d{2})?\s*(?:am|pm)/i .test(s)
timeOnlyPattern(s) == TimeAt(toLowerCase(s), SkipSpaces(s, 1)).matched

\* the end of a range: one day later when it is not after the start, one day
\* later when it is before now, unchanged otherwise
AdjustEndDate(jsDate, startDate) ==
    IF jsDate <= startDate THEN jsDate + 86400
    ELSE IF jsDate < now THEN jsDate + 86400
    ELSE jsDate

\* "tomorrow": now's date plus one day at the time of day of jsDate
AdjustTomorrow(jsDate) ==
    SetDateAndHours(now, 1, getHours(jsDate), getMinutes(jsDate), getSeconds(jsDate))

\* today.setDate(today.getDate() + 1) only when today's time of day is before now
RollIfPassed_OnlyBefore(today) == IF today < now THEN AddDays(today, 1) ELSE today

\* today.setDate(today.getDate() + 1) when today's time of day has passed
RollIfPassed(today) == IF today <= now THEN AddDays(today, 1) ELSE today

\* "today": now's date at the time of day of jsDate, tomorrow when that has passed
AdjustToday(jsDate) ==
    RollIfPassed(SetDateAndHours(now, 0, getHours(jsDate), getMinutes(jsDate),
                                 getSeconds(jsDate)))

\* a time only: today at that time when it is still to come, tomorrow otherwise
AdjustTimeOnly(todayAtTime) ==
    IF todayAtTime > now THEN todayAtTime ELSE AddDays(todayAtTime, 1)

\* jsDate is not after now: a week later for a weekday, today or tomorrow for a
\* time only, the day after jsDate otherwise
AdjustPast(jsDate, lowerText) ==
    IF dayOfWeekPattern(lowerText) THEN jsDate + (7 * 86400)
    ELSE IF timeOnlyPattern(trim(lowerText))
    THEN AdjustTimeOnly(SetDateAndHours(now, 0, getHours(jsDate), getMinutes(jsDate),
                                        getSeconds(jsDate)))
    ELSE AddDays(jsDate, 1)

\* the same with "today" looked for before "tomorrow"
AdjustStartDate_TodayFirst(jsDate, lowerText) ==
    IF Includes(lowerText, S_today) THEN AdjustToday(jsDate)
    ELSE IF Includes(lowerText, S_tomorrow) THEN AdjustTomorrow(jsDate)
    ELSE IF jsDate <= now THEN AdjustPast(jsDate, lowerText)
    ELSE jsDate

AdjustStartDate(jsDate, lowerText) ==
    IF Includes(lowerText, S_tomorrow) THEN AdjustTomorrow(jsDate)
    ELSE IF Includes(lowerText, S_today) THEN AdjustToday(jsDate)
    ELSE IF jsDate <= now THEN AdjustPast(jsDate, lowerText)
    ELSE jsDate

adjustToFuture(jsDate, originalText, isEndDate, startDate) ==
    IF isEndDate /\ startDate # NoStartDate THEN AdjustEndDate(jsDate, startDate)
    ELSE AdjustStartDate(jsDate, toLowerCase(originalText))

(***************************************************************************)
(* processChronoDate                                                       *)
(***************************************************************************)
\* the components of a date chrono has parsed: chronoComponent.get(...)
Components(year, month, day, hour, minute, second) ==
    [year |-> year, month |-> month, day |-> day, hour |-> hour, minute |-> minute,
     second |-> second]

\* a || b, for numbers
OrElse(a, b) == IF a = 0 THEN b ELSE a

\* chronoComponent.date(): the components read in the zone of the server
ChronoDate(c) == LocalInstant(DayNumber(c.year, c.month, c.day), c.hour, c.minute, c.second)

\* the object given to DateTime.fromObject: a missing year, month or day is now's
FieldsOf(c) ==
    Components(OrElse(c.year, getFullYear(now)), OrElse(c.month, getMonth1(now)),
               OrElse(c.day, getDate(now)), c.hour, c.minute, c.second)

\* what processChronoDate returns; no date for the end of a result without one
NoChronoDate ==
    [isNull |-> TRUE, jsDate |-> 0, timezoneInfo |-> NoTimezoneInfo, unixTimestamp |-> 0,
     wasAdjustedToFuture |-> FALSE]

ChronoDateResult(timezoneAdjustedDate, timezoneInfo, finalDate) ==
    [isNull |-> FALSE, jsDate |-> finalDate, timezoneInfo |-> timezoneInfo,
     unixTimestamp |-> unixTimestamp(finalDate),
     wasAdjustedToFuture |-> finalDate # timezoneAdjustedDate]

\* let finalDate = adjustToFuture(timezoneAdjustedDate, originalText, isEndDate, startDate)
AdjustChronoDate(timezoneAdjustedDate, timezoneInfo, isEndDate, startDate, originalText) ==
    ChronoDateResult(timezoneAdjustedDate, timezoneInfo,
                     adjustToFuture(timezoneAdjustedDate, originalText, isEndDate, startDate))

\* a manual offset: the fields read at UTC, minus the offset
ManualChronoDate(c, f, offsetMinutes, isEndDate, startDate, originalText) ==
    IF ValidFields(f.year, f.month, f.day, f.hour, f.minute, f.second)
    THEN AdjustChronoDate(MinusMinutes(FromObjectUTC(f.year, f.month, f.day, f.hour, f.minute,
                                                     f.second), offsetMinutes),
                          ManualTimezoneInfo(offsetMinutes), isEndDate, startDate, originalText)
    ELSE AdjustChronoDate(ChronoDate(c), NoTimezoneInfo, isEndDate, startDate, originalText)

\* a named zone: the fields read in that zone
ZoneChronoDate(c, f, zone, isEndDate, startDate, originalText) ==
    IF FromObjectIsValid(f.year, f.month, f.day, f.hour, f.minute, f.second, zone)
    THEN AdjustChronoDate(FromObjectInZone(f.year, f.month, f.day, f.hour, f.minute, f.second,
                                           zone),
                          ZoneTimezoneInfo(zone), isEndDate, startDate, originalText)
    ELSE AdjustChronoDate(ChronoDate(c), NoTimezoneInfo, isEndDate, startDate, originalText)

processChronoDate(chronoComponent, timezone, isEndDate, startDate, originalText) ==
    IF timezone = NULL
    THEN AdjustChronoDate(ChronoDate(chronoComponent), NoTimezoneInfo, isEndDate, startDate,
                          originalText)
    ELSE IF IsManualOffset(timezone)
    THEN ManualChronoDate(chronoComponent, FieldsOf(chronoComponent),
                          ManualOffsetMinutes(timezone), isEndDate, startDate, originalText)
    ELSE ZoneChronoDate(chronoComponent, FieldsOf(chronoComponent), timezone, isEndDate,
                        startDate, originalText)

(***************************************************************************)
(* hasTimeForScheduling                                                    *)
(***************************************************************************)
\* the character at index i of s is one of set
CharIn(s, i, set) == i >= 1 /\ i <= Len(s) /\ s[i] \in set

\* (?:am|pm|AM|PM) at index i
MeridiemCaseAt(s, i) ==
    \/ LitAt(s, i, <<"a","m">>)
    \/ LitAt(s, i, <<"p","m">>)
    \/ LitAt(s, i, <<"A","M">>)
    \/ LitAt(s, i, <<"P","M">>)

\* (?::\d{2})?\s*(?:am|pm|AM|PM) at index k
Tail12h(s, k) ==
    \/ TimeMinutesAt(s, k) /\ MeridiemCaseAt(s, SkipSpaces(s, k + 3))
    \/ MeridiemCaseAt(s, SkipSpaces(s, k))

\* 12-hour format: /\d{1,2}(?::\d{2})?\s*(?:am|pm|AM|PM)/
Indicator12h(s) ==
    \E i \in 1..Len(s) :
        /\ DigitAt(s, i)
        /\ \/ DigitAt(s, i + 1) /\ Tail12h(s, i + 2)
           \/ Tail12h(s, i + 1)

\* :[0-5]\d\b at index k
ColonMinutesAt(s, k) ==
    /\ CharIn(s, k, {":"})
    /\ CharIn(s, k + 1, {"0", "1", "2", "3", "4", "5"})
    /\ DigitAt(s, k + 2)
    /\ WordBoundary(s, k + 3)

\* 24-hour format with colons: /\b(?:[01]?\d|2[0-3]):[0-5]\d\b/
Indicator24h(s) ==
    \E i \in 1..Len(s) :
        /\ WordBoundary(s, i)
        /\ \/ CharIn(s, i, {"0", "1"}) /\ DigitAt(s, i + 1) /\ ColonMinutesAt(s, i + 2)
           \/ DigitAt(s, i) /\ ColonMinutesAt(s, i + 1)
           \/ CharIn(s, i, {"2"}) /\ CharIn(s, i + 1, {"0", "1", "2", "3"})
                /\ ColonMinutesAt(s, i + 2)

\* (?:[01]\d|2[0-3])[0-5]\d at index i
MilitaryDigitsAt(s, i) ==
    /\ \/ CharIn(s, i, {"0", "1"}) /\ DigitAt(s, i + 1)
       \/ CharIn(s, i, {"2"}) /\ CharIn(s, i + 1, {"0", "1", "2", "3"})
    /\ CharIn(s, i + 2, {"0", "1", "2", "3", "4", "5"})
    /\ DigitAt(s, i + 3)

\* hours?|hrs?|ist|est|pst|cst|utc|gmt
MilitaryWords == { <<"h","o","u","r","s">>, <<"h","o","u","r">>, <<"h","r","s">>, <<"h","r">>, <<"i","s","t">>, <<"e","s","t">>, <<"p","s","t">>, <<"c","s","t">>,
                   <<"u","t","c">>, <<"g","m","t">> }

\* the indices at which [+-]\d{1,2}(?::\d{2})? can end when it starts at index k
MilitaryOffsetEnds(s, k) ==
    IF ~(CharIn(s, k, {"+", "-"}) /\ DigitAt(s, k + 1)) THEN {}
    ELSE {k + 2}
         \cup (IF TimeMinutesAt(s, k + 2) THEN {k + 5} ELSE {})
         \cup (IF DigitAt(s, k + 2) THEN {k + 3} ELSE {})
         \cup (IF DigitAt(s, k + 2) /\ TimeMinutesAt(s, k + 3) THEN {k + 6} ELSE {})

\* the indices at which the suffix of a military time can end when it starts at k
MilitarySuffixEnds(s, k) ==
    { k + Len(w) : w \in { v \in MilitaryWords : LitAt(s, k, v) } } \cup MilitaryOffsetEnds(s, k)

\* 4-digit military time, on the lower-cased text:
\* /\b(?:[01]\d|2[0-3])[0-5]\d(?:\s*(?:hours?|...|[+-]\d{1,2}(?::\d{2})?))?\b/i
IndicatorMilitary(s) ==
    \E i \in 1..Len(s) :
        /\ WordBoundary(s, i)
        /\ MilitaryDigitsAt(s, i)
        /\ \/ WordBoundary(s, i + 4)
           \/ \E e \in MilitarySuffixEnds(s, SkipSpaces(s, i + 4)) : WordBoundary(s, e)

TimeWords == { <<"n","o","o","n">>, <<"m","i","d","n","i","g","h","t">>, <<"e","v","e","n","i","n","g">>, <<"m","o","r","n","i","n","g">>, <<"a","f","t","e","r","n","o","o","n">> }

\* word times, on the lower-cased text: /\b(?:noon|midnight|evening|morning|afternoon)\b/i
IndicatorWord(s) ==
    \E i \in 1..Len(s) : \E w \in TimeWords :
        WordBoundary(s, i) /\ LitAt(s, i, w) /\ WordBoundary(s, i + Len(w))

\* "at X": /\bat\s+\d/
IndicatorAt(s) ==
    \E i \in 1..Len(s) :
        /\ WordBoundary(s, i)
        /\ LitAt(s, i, <<"a","t">>)
        /\ CharIn(s, i + 2, {" "})
        /\ DigitAt(s, SkipSpaces(s, i + 2))

\* "X o'clock", on the lower-cased text: /\d+\s*o'?clock/i
IndicatorOclock(s) ==
    \E i \in 1..Len(s) :
        /\ DigitAt(s, i)
        /\ \/ LitAt(s, SkipSpaces(s, i + 1), <<"o","c","l","o","c","k">>)
           \/ LitAt(s, SkipSpaces(s, i + 1), <<"o","'","c","l","o","c","k">>)

\* timeIndicators.some(pattern => pattern.test(text))
hasTimeForScheduling(t) ==
    \/ Indicator12h(t)
    \/ Indicator24h(t)
    \/ IndicatorMilitary(toLowerCase(t))
    \/ IndicatorWord(toLowerCase(t))
    \/ IndicatorAt(t)
    \/ IndicatorOclock(toLowerCase(t))

(***************************************************************************)
(* preprocessText                                                          *)
(***************************************************************************)
MonthNames == << <<"J","a","n","u","a","r","y">>, <<"F","e","b","r","u","a","r","y">>, <<"M","a","r","c","h">>, <<"A","p","r","i","l">>, <<"M","a","y">>, <<"J","u","n","e">>, <<"J","u","l","y">>,
                 <<"A","u","g","u","s","t">>, <<"S","e","p","t","e","m","b","e","r">>, <<"O","c","t","o","b","e","r">>, <<"N","o","v","e","m","b","e","r">>, <<"D","e","c","e","m","b","e","r">> >>

\* now.toLocaleString('en', { month: 'long' })
currentMonthName == MonthNames[getMonth1(now)]

\* OrdinalSuffix without the case of 11, 12 and 13
OrdinalSuffix_NoTeens(dayNum) ==
    IF dayNum % 10 = 1 THEN <<"s","t">>
    ELSE IF dayNum % 10 = 2 THEN <<"n","d">>
    ELSE IF dayNum % 10 = 3 THEN <<"r","d">>
    ELSE <<"t","h">>

\* the suffix a replacement function computes for dayNum
OrdinalSuffix(dayNum) ==
    IF dayNum >= 11 /\ dayNum <= 13 THEN <<"t","h">>
    ELSE IF dayNum % 10 = 1 THEN <<"s","t">>
    ELSE IF dayNum % 10 = 2 THEN <<"n","d">>
    ELSE IF dayNum % 10 = 3 THEN <<"r","d">>
    ELSE <<"t","h">>

\* (?:st|nd|rd|th) at index k
SuffixAt(s, k) ==
    \/ LitAt(s, k, <<"s","t">>)
    \/ LitAt(s, k, <<"n","d">>)
    \/ LitAt(s, k, <<"r","d">>)
    \/ LitAt(s, k, <<"t","h">>)

\* (\d{1,2}) at index d, when no digit may follow it: the index after it, or 0
DayEnd(s, d) ==
    IF DigitAt(s, d) /\ DigitAt(s, d + 1) THEN d + 2
    ELSE IF DigitAt(s, d) THEN d + 1
    ELSE 0

\* (?:st|nd|rd|th)?\b after a day that ends before index k: the index after it, or 0
OptionalSuffixEnd(s, k) ==
    IF k = 0 THEN 0
    ELSE IF SuffixAt(s, k) /\ WordBoundary(s, k + 2) THEN k + 2
    ELSE IF WordBoundary(s, k) THEN k
    ELSE 0

\* \s+on\s+ at index e: the index after it, or 0
OnEnd(s, e) ==
    IF /\ CharIn(s, e, {" "})
       /\ LitAt(s, SkipSpaces(s, e), <<"o","n">>)
       /\ CharIn(s, SkipSpaces(s, e) + 2, {" "})
    THEN SkipSpaces(s, SkipSpaces(s, e) + 2)
    ELSE 0

\* \s+ at index e: the index after it, or 0
SpacesEnd(s, e) == IF CharIn(s, e, {" "}) THEN SkipSpaces(s, e) ELSE 0

\* no match of a rule
NoRuleMatch == [matched |-> FALSE, end |-> 0, replacement |-> <<>>]

\* `${time} on ${day}${suffix} of ${currentMonth}`, after the prefix
OnDayOfMonth(prefix, time, day, suffix, month) ==
    Concat(<< prefix, time, <<" ","o","n"," ">>, day, suffix, <<" ","o","f"," ">>, month >>)

\* the time stands at index t and ends before e; the day stands at index d (0: the
\* text between them did not match) and ends, with its suffix, before dayEnd
TimeOnDay(s, t, e, d, dayEnd, matchEnd, prefix, month) ==
    IF d = 0 \/ dayEnd = 0 \/ matchEnd = 0 THEN NoRuleMatch
    ELSE [matched |-> TRUE, end |-> matchEnd,
          replacement |-> OnDayOfMonth(prefix, SubSeq(s, t, e - 1), SubSeq(s, d, dayEnd - 1),
                                       OrdinalSuffix(parseInt(SubSeq(s, d, dayEnd - 1))), month)]

\* (time)\s+on\s+(\d{1,2})(?:st|nd|rd|th)?\b with the time at index t
TimeOnDayAt(s, lower, t, e, d, prefix, month) ==
    TimeOnDay(s, t, e, d, DayEnd(lower, d), OptionalSuffixEnd(lower, DayEnd(lower, d)), prefix,
              month)

\* pattern 1 at index i: \b(time)\s+on\s+(day)(?:st|nd|rd|th)?\b
Rule1At(s, lower, i, month) ==
    IF WordBoundary(lower, i) /\ TimeAt(lower, i).matched
    THEN TimeOnDayAt(s, lower, i, TimeAt(lower, i).end, OnEnd(lower, TimeAt(lower, i).end),
                     <<>>, month)
    ELSE NoRuleMatch

\* the day starts at index i and ends before dayEnd, the time at index t (0: no
\* space after the day)
DayThenTime(s, lower, i, dayEnd, t, month) ==
    IF t = 0 \/ ~TimeAt(lower, t).matched THEN NoRuleMatch
    ELSE IF ~WordBoundary(lower, TimeAt(lower, t).end) THEN NoRuleMatch
    ELSE [matched |-> TRUE, end |-> TimeAt(lower, t).end,
          replacement |-> OnDayOfMonth(<<>>, SubSeq(s, t, TimeAt(lower, t).end - 1),
                                       SubSeq(s, i, dayEnd - 1),
                                       OrdinalSuffix(parseInt(SubSeq(s, i, dayEnd - 1))), month)]

\* pattern 2 at index i: \b(day)(?:st|nd|rd|th)?\s+(time)\b
Rule2At(s, lower, i, month) ==
    IF WordBoundary(lower, i) /\ DayEnd(lower, i) # 0
    THEN DayThenTime(s, lower, i, DayEnd(lower, i),
                     SpacesEnd(lower, IF SuffixAt(lower, DayEnd(lower, i))
                                      THEN DayEnd(lower, i) + 2 ELSE DayEnd(lower, i)),
                     month)
    ELSE NoRuleMatch

\* the time stands at index t and ends before e, the day with its suffix at index d
TimeThenDay(s, lower, t, e, d, month) ==
    IF d = 0 \/ DayEnd(lower, d) = 0 THEN NoRuleMatch
    ELSE IF ~(SuffixAt(lower, DayEnd(lower, d)) /\ WordBoundary(lower, DayEnd(lower, d) + 2))
    THEN NoRuleMatch
    ELSE [matched |-> TRUE, end |-> DayEnd(lower, d) + 2,
          replacement |-> Concat(<< SubSeq(s, t, e - 1), <<" ","o","n"," ">>,
                                    SubSeq(s, d, DayEnd(lower, d) + 1), <<" ","o","f"," ">>, month >>)]

\* pattern 3 at index i: \b(time)\s+(day(?:st|nd|rd|th))\b
Rule3At(s, lower, i, month) ==
    IF WordBoundary(lower, i) /\ TimeAt(lower, i).matched
    THEN TimeThenDay(s, lower, i, TimeAt(lower, i).end,
                     SpacesEnd(lower, TimeAt(lower, i).end), month)
    ELSE NoRuleMatch

\* pattern 4 with the time at index t: (time)\s+on\s+(day)(?:st|nd|rd|th)?\b
Rule4Time(s, lower, t, month) ==
    IF t # 0 /\ TimeAt(lower, t).matched
    THEN TimeOnDayAt(s, lower, t, TimeAt(lower, t).end, OnEnd(lower, TimeAt(lower, t).end),
                     <<"a","t"," ">>, month)
    ELSE NoRuleMatch

\* pattern 4 at index i: \bat\s+(time)\s+on\s+(day)(?:st|nd|rd|th)?\b
Rule4At(s, lower, i, month) ==
    IF WordBoundary(lower, i) /\ LitAt(lower, i, <<"a","t">>)
    THEN Rule4Time(s, lower, SpacesEnd(lower, i + 2), month)
    ELSE NoRuleMatch

RuleAt(rule, s, lower, i, month) ==
    CASE rule = 1 -> Rule1At(s, lower, i, month)
      [] rule = 2 -> Rule2At(s, lower, i, month)
      [] rule = 3 -> Rule3At(s, lower, i, month)
      [] rule = 4 -> Rule4At(s, lower, i, month)

\* processedText.replace(pattern, ...) with the g flag, from index i on: every
\* match, left to right, is replaced; the search goes on after the match
RECURSIVE ReplaceFrom(_, _, _, _, _)
ReplaceStep(rule, s, lower, i, month, m) ==
    IF m.matched THEN m.replacement \o ReplaceFrom(rule, s, lower, m.end, month)
    ELSE <<s[i]>> \o ReplaceFrom(rule, s, lower, i + 1, month)

ReplaceFrom(rule, s, lower, i, month) ==
    IF i > Len(s) THEN <<>>
    ELSE ReplaceStep(rule, s, lower, i, month, RuleAt(rule, s, lower, i, month))

ReplaceAll(rule, s, month) == ReplaceFrom(rule, s, toLowerCase(s), 1, month)

preprocessText(t) ==
    ReplaceAll(4, ReplaceAll(3, ReplaceAll(2, ReplaceAll(1, trim(t), currentMonthName),
                                           currentMonthName), currentMonthName),
               currentMonthName)

(***************************************************************************)
(* parseDateRange                                                          *)
(***************************************************************************)
\* (\d{1,2})(?:st|nd|rd|th)? at index d: the index after it, or 0
DayWithSuffixEnd(s, d) ==
    IF DayEnd(s, d) = 0 THEN 0
    ELSE IF SuffixAt(s, DayEnd(s, d)) THEN DayEnd(s, d) + 2
    ELSE DayEnd(s, d)

\* \s+<word>\s+ at index e (0: nothing matched before it): the index after it, or 0
WordBetweenSpaces(s, e, word) ==
    IF /\ e # 0
       /\ CharIn(s, e, {" "})
       /\ LitAt(s, SkipSpaces(s, e), word)
       /\ CharIn(s, SkipSpaces(s, e) + Len(word), {" "})
    THEN SkipSpaces(s, SkipSpaces(s, e) + Len(word))
    ELSE 0

NoRangeMatch == [matched |-> FALSE, startDay |-> 0, endDay |-> 0, time |-> NoTime]

\* the first day stands at index i, the second at index d2, the time at index t
RangeGroups(s, i, d2, t) ==
    IF d2 = 0 \/ t = 0 THEN NoRangeMatch
    ELSE IF ~TimeAt(s, t).matched THEN NoRangeMatch
    ELSE [matched |-> TRUE, startDay |-> parseInt(SubSeq(s, i, DayEnd(s, i) - 1)),
          endDay |-> parseInt(SubSeq(s, d2, DayEnd(s, d2) - 1)), time |-> TimeAt(s, t)]

\* the second day stands at index d2 (0: no " to " after the first day)
RangeSecondDay(s, i, d2) ==
    IF d2 = 0 THEN NoRangeMatch
    ELSE RangeGroups(s, i, d2, WordBetweenSpaces(s, DayWithSuffixEnd(s, d2), <<"a","t">>))

\* dateRangePattern at index i
RangeAt(s, i) ==
    RangeSecondDay(s, i, WordBetweenSpaces(s, DayWithSuffixEnd(s, i), <<"t","o">>))

RECURSIVE RangeFrom(_, _)
RangeFrom(s, i) ==
    IF i > Len(s) THEN NoRangeMatch
    ELSE IF RangeAt(s, i).matched THEN RangeAt(s, i)
    ELSE RangeFrom(s, i + 1)

\* text.match(dateRangePattern), the meridiem in lower case
dateRangePattern(t) == RangeFrom(toLowerCase(t), 1)

\* new Date(currentYear, currentMonth, day, hour24, minute, 0, 0)
RangeTargetDate(day, hour24, minute) ==
    LocalInstant(DayNumber(getFullYear(now), getMonth1(now), day), hour24, minute, 0)

\* one pass of the loop: targetDate = adjustToFuture(targetDate, text), then the zone
DateRangeEntry(day, hour24, minute, t, tz) ==
    SeriesEntry(day, adjustToFuture(RangeTargetDate(day, hour24, minute), t, FALSE, NoStartDate),
                hour24, minute, tz)

\* DateRangeEntries with the loop stopping before endDay
DateRangeEntries_ExclusiveEnd(startDay, endDay, hour24, minute, t, tz) ==
    [k \in 1..(endDay - startDay) |->
        DateRangeEntry((startDay + k) - 1, hour24, minute, t, tz)]

\* for (let day = startDay; day <= endDay; day++)
DateRangeEntries(startDay, endDay, hour24, minute, t, tz) ==
    [k \in 1..((endDay - startDay) + 1) |->
        DateRangeEntry((startDay + k) - 1, hour24, minute, t, tz)]

DateRangeOf(m, t, tz) ==
    ArrayResult(DateRangeEntries(m.startDay, m.endDay, hour24Of(m.time), MinuteOf(m.time), t, tz))

parseDateRange(t, tz) ==
    IF ~dateRangePattern(t).matched THEN NullResult
    ELSE DateRangeOf(dateRangePattern(t), t, tz)

(***************************************************************************)
(* parseDateRange of scheduling-api.js                                     *)
(***************************************************************************)
\* if (targetDate < now) targetDate.setMonth(currentMonth + 1)
NextMonthIfPast(targetDate) ==
    IF targetDate < now
    THEN LocalInstant(DayNumber(getFullYear(targetDate), getMonth1(now) + 1,
                                getDate(targetDate)),
                      getHours(targetDate), getMinutes(targetDate), getSeconds(targetDate))
    ELSE targetDate

LegacyDateRangeEntry(day, hour24, minute, tz) ==
    SeriesEntry(day, NextMonthIfPast(RangeTargetDate(day, hour24, minute)), hour24, minute, tz)

LegacyDateRangeEntries(startDay, endDay, hour24, minute, tz) ==
    [k \in 1..((endDay - startDay) + 1) |->
        LegacyDateRangeEntry((startDay + k) - 1, hour24, minute, tz)]

LegacyDateRangeOf(m, tz) ==
    ArrayResult(LegacyDateRangeEntries(m.startDay, m.endDay, hour24Of(m.time), MinuteOf(m.time),
                                       tz))

LegacyParseDateRange(t, tz) ==
    IF ~dateRangePattern(t).matched THEN NullResult
    ELSE LegacyDateRangeOf(dateRangePattern(t), tz)

(***************************************************************************)
(* processChronoDate of scheduling-api.js                                  *)
(***************************************************************************)
\* no adjustToFuture: the converted date is the result
LegacyChronoDateResult(finalDate, timezoneInfo) == ChronoDateResult(finalDate, timezoneInfo, finalDate)

LegacyProcessChronoDate(c, timezone) ==
    IF timezone = NULL THEN LegacyChronoDateResult(ChronoDate(c), NoTimezoneInfo)
    ELSE IF IsManualOffset(timezone)
    THEN IF ValidFields(c.year, c.month, c.day, c.hour, c.minute, c.second)
         THEN LegacyChronoDateResult(
                  MinusMinutes(FromObjectUTC(c.year, c.month, c.day, c.hour, c.minute, c.second),
                               ManualOffsetMinutes(timezone)),
                  ManualTimezoneInfo(ManualOffsetMinutes(timezone)))
         ELSE LegacyChronoDateResult(ChronoDate(c), NoTimezoneInfo)
    ELSE IF FromObjectIsValid(c.year, c.month, c.day, c.hour, c.minute, c.second, timezone)
    THEN LegacyChronoDateResult(
             FromObjectInZone(c.year, c.month, c.day, c.hour, c.minute, c.second, timezone),
             ZoneTimezoneInfo(timezone))
    ELSE LegacyChronoDateResult(ChronoDate(c), NoTimezoneInfo)

(***************************************************************************)
(* adjustToFuture of the second handler of part_000                        *)
(***************************************************************************)
S_weekend == <<"w","e","e","k","e","n","d">>

\* /\bweekend\b/i .test(lowerText)
weekendPattern(s) ==
    \E i \in 1..Len(s) :
        /\ WordBoundary(s, i)
        /\ LitAt(s, i, S_weekend)
        /\ WordBoundary(s, i + Len(S_weekend))

\* /\d{1,2}(?:st|nd|rd|th)?\s+to\s+\d{1,2}(?:st|nd|rd|th)?/i .test(lowerText)
dateRangeTest(s) ==
    \E i \in 1..Len(s) :
        /\ WordBetweenSpaces(s, DayWithSuffixEnd(s, i), <<"t","o">>) # 0
        /\ DayEnd(s, WordBetweenSpaces(s, DayWithSuffixEnd(s, i), <<"t","o">>)) # 0

\* nextMonth = new Date(jsDate); nextMonth.setMonth(nextMonth.getMonth() + 1)
SetNextMonth(jsDate) ==
    LocalInstant(DayNumber(getFullYear(jsDate), getMonth1(jsDate) + 1, getDate(jsDate)),
                 getHours(jsDate), getMinutes(jsDate), getSeconds(jsDate))

\* Math.ceil((now.getTime() - jsDate.getTime()) / oneWeekMs), for jsDate before now
WeeksToAdd(jsDate) == ((now - jsDate) + ((7 * 86400) - 1)) \div (7 * 86400)

\* the end of a range: a week later when it is not after the start, whole weeks
\* later when it is before now, unchanged otherwise
VariantAdjustEndDate(jsDate, startDate) ==
    IF jsDate <= startDate THEN jsDate + (7 * 86400)
    ELSE IF jsDate < now THEN jsDate + (WeeksToAdd(jsDate) * (7 * 86400))
    ELSE jsDate

\* jsDate is more than an hour before now: a week later for a weekday or "weekend",
\* the next month for "<day> to <day>" and for more than a week ago, a week later
\* otherwise
VariantAdjustPast(jsDate, lowerText) ==
    IF dayOfWeekPattern(lowerText) \/ weekendPattern(lowerText) THEN jsDate + (7 * 86400)
    ELSE IF dateRangeTest(lowerText) THEN SetNextMonth(jsDate)
    ELSE IF jsDate < now - (7 * 86400) THEN SetNextMonth(jsDate)
    ELSE jsDate + (7 * 86400)

VariantAdjustToFuture(jsDate, originalText, isEndDate, startDate) ==
    IF isEndDate /\ startDate # NoStartDate THEN VariantAdjustEndDate(jsDate, startDate)
    ELSE IF jsDate < now - 3600 THEN VariantAdjustPast(jsDate, toLowerCase(originalText))
    ELSE jsDate

\* parseDateRange of the second handler: the same loop with its adjustToFuture
VariantDateRangeEntry(day, hour24, minute, t, tz) ==
    SeriesEntry(day,
                VariantAdjustToFuture(RangeTargetDate(day, hour24, minute), t, FALSE, NoStartDate),
                hour24, minute, tz)

VariantDateRangeEntries(startDay, endDay, hour24, minute, t, tz) ==
    [k \in 1..((endDay - startDay) + 1) |->
        VariantDateRangeEntry((startDay + k) - 1, hour24, minute, t, tz)]

VariantParseDateRange(t, tz) ==
    IF ~dateRangePattern(t).matched THEN NullResult
    ELSE ArrayResult(VariantDateRangeEntries(dateRangePattern(t).startDay,
                                             dateRangePattern(t).endDay,
                                             hour24Of(dateRangePattern(t).time),
                                             MinuteOf(dateRangePattern(t).time), t, tz))

(***************************************************************************)
(* app.get('/parse')                                                       *)
(***************************************************************************)
\* what chrono.parse gives for the text of the request and for the text after the
\* normalizer
ChronoGives(ofText, ofProcessedText) == [ofText |-> ofText, ofProcessedText |-> ofProcessedText]

\* chrono.parse(t): the results chrono gives for the text t, which is the text of
\* the request or the text after the normalizer
chronoParse(t) == IF t = text THEN chronoResults.ofText ELSE chronoResults.ofProcessedText

\* res.json(body), and the error middleware's res.status(500).json(body) when
\* NODE_ENV is not 'development'
Json(body) == [sent |-> TRUE, status |-> 200, body |-> body]

InternalServerError ==
    [sent |-> TRUE, status |-> 500,
     body |-> [error |-> "Internal server error", message |-> "Something went wrong"]]

MissingTextBody ==
    [error |-> "Missing text parameter",
     example |-> "/parse?text=tomorrow at 3pm bangladesh time"]

NotRelevantBody(originalText) ==
    [original_text |-> originalText, found_dates |-> FALSE, is_scheduling_relevant |-> FALSE,
     message |-> "No specific time found - not scheduling relevant"]

\* text !== originalText ? text : undefined
PreprocessedField(t, originalText) == IF t # originalText THEN t ELSE NULL

\* the entries of a series as the response gives them
MultipleTimes(items) ==
    [k \in DOMAIN items |-> [day |-> items[k].day, unix_timestamp |-> items[k].unixTimestamp]]

\* the response for a series; reading its first entry fails when it has none
SeriesResponse(items, isRange, t, originalText, tz) ==
    IF items = <<>> THEN InternalServerError
    ELSE Json([original_text |-> originalText,
               preprocessed_text |-> PreprocessedField(t, originalText),
               found_dates |-> TRUE, is_range |-> isRange, is_multiple_times |-> TRUE,
               detected_timezone |-> tz, timezone_info |-> items[1].timezoneInfo,
               multiple_times |-> MultipleTimes(items),
               unix_timestamp |-> items[1].unixTimestamp,
               count |-> Len(items)])

NoDatesBody(t, originalText, tz) ==
    [original_text |-> originalText, preprocessed_text |-> PreprocessedField(t, originalText),
     found_dates |-> FALSE, is_range |-> FALSE, is_multiple_times |-> FALSE,
     detected_timezone |-> tz, message |-> "No dates found in the text"]

\* the response of the generic path for a single instant
StartBody(t, originalText, tz, start) ==
    [original_text |-> originalText, preprocessed_text |-> PreprocessedField(t, originalText),
     found_dates |-> TRUE, is_range |-> FALSE, is_multiple_times |-> FALSE,
     detected_timezone |-> tz, timezone_info |-> start.timezoneInfo,
     was_adjusted_to_future |-> start.wasAdjustedToFuture,
     start_time |-> start.unixTimestamp, unix_timestamp |-> start.unixTimestamp]

\* the response of the generic path for a range: end_time and duration are added
RangeBody(t, originalText, tz, start, end) ==
    [original_text |-> originalText, preprocessed_text |-> PreprocessedField(t, originalText),
     found_dates |-> TRUE, is_range |-> TRUE, is_multiple_times |-> FALSE,
     detected_timezone |-> tz, timezone_info |-> start.timezoneInfo,
     was_adjusted_to_future |-> start.wasAdjustedToFuture,
     start_time |-> start.unixTimestamp, unix_timestamp |-> start.unixTimestamp,
     end_time |-> end.unixTimestamp,
     duration |-> [seconds |-> end.jsDate - start.jsDate],
     end_was_adjusted_to_future |-> end.wasAdjustedToFuture]

GenericResponse(t, originalText, tz, start, end) ==
    IF end.isNull THEN Json(StartBody(t, originalText, tz, start))
    ELSE Json(RangeBody(t, originalText, tz, start, end))

\* ResolvedResponse with the first result read although chrono gave none
ResolvedResponse_NoEmptyCheck(t, originalText, tz, md, dr, results, start, end) ==
    IF ~md.isNull THEN SeriesResponse(md.items, FALSE, t, originalText, tz)
    ELSE IF ~dr.isNull THEN SeriesResponse(dr.items, TRUE, t, originalText, tz)
    ELSE IF results = <<>> THEN InternalServerError
    ELSE GenericResponse(t, originalText, tz, start, end)

\* the answer once the relevance filter has passed
ResolvedResponse(t, originalText, tz, md, dr, results, start, end) ==
    IF ~md.isNull THEN SeriesResponse(md.items, FALSE, t, originalText, tz)
    ELSE IF ~dr.isNull THEN SeriesResponse(dr.items, TRUE, t, originalText, tz)
    ELSE IF results = <<>> THEN Json(NoDatesBody(t, originalText, tz))
    ELSE GenericResponse(t, originalText, tz, start, end)

\* ResolvedCalls with chrono.parse called whatever the expanders returned
ResolvedCalls_ChronoAlways(md, dr, results) ==
    << "detectTimezone", "parseMultipleDays" >>
        \o (IF md.isNull THEN << "parseDateRange" >> ELSE <<>>)
        \o << "chrono.parse" >>

\* the calls made after the relevance filter, in order
ResolvedCalls(md, dr, results) ==
    << "detectTimezone", "parseMultipleDays" >>
        \o (IF md.isNull THEN << "parseDateRange" >> ELSE <<>>)
        \o (IF md.isNull /\ dr.isNull THEN << "chrono.parse" >> ELSE <<>>)
        \o (IF md.isNull /\ dr.isNull /\ results # <<>>
            THEN IF results[1].hasEnd THEN << "processChronoDate", "processChronoDate" >>
                 ELSE << "processChronoDate" >>
            ELSE <<>>)

\* the request passes both early returns of the handler of part_000
Relevant == text # NULL /\ hasTimeForScheduling(text)

\* chrono.parse is reached: neither expander has matched
ChronoReached(md, dr) == md.isNull /\ dr.isNull

\* the handler of part_000, from the request to the response
Parse ==
    /\ pc = "start"
    /\ processedText' = IF Relevant THEN preprocessText(text) ELSE NULL
    /\ detectedTimezone' = IF Relevant THEN detectTimezone(processedText') ELSE NULL
    /\ multipleDaysResult' =
          IF Relevant THEN parseMultipleDays(processedText', detectedTimezone') ELSE NullResult
    /\ dateRangeResult' =
          IF Relevant /\ multipleDaysResult'.isNull
          THEN parseDateRange(processedText', detectedTimezone')
          ELSE NullResult
    /\ startResult' =
          IF /\ Relevant
             /\ ChronoReached(multipleDaysResult', dateRangeResult')
             /\ chronoParse(processedText') # <<>>
          THEN processChronoDate(chronoParse(processedText')[1].start, detectedTimezone', FALSE,
                                 NoStartDate, text)
          ELSE NoChronoDate
    /\ endResult' =
          IF ~startResult'.isNull /\ chronoParse(processedText')[1].hasEnd
          THEN processChronoDate(chronoParse(processedText')[1].end, detectedTimezone', TRUE,
                                 startResult'.jsDate, text)
          ELSE NoChronoDate
    /\ calls' =
          IF text = NULL THEN <<>>
          ELSE IF ~Relevant THEN << "hasTimeForScheduling" >>
          ELSE << "hasTimeForScheduling", "preprocessText" >>
                  \o ResolvedCalls(multipleDaysResult', dateRangeResult',
                                   IF ChronoReached(multipleDaysResult', dateRangeResult')
                                   THEN chronoParse(processedText') ELSE <<>>)
    /\ response' =
          IF text = NULL THEN Json(MissingTextBody)
          ELSE IF ~Relevant THEN Json(NotRelevantBody(text))
          ELSE ResolvedResponse(processedText', text, detectedTimezone', multipleDaysResult',
                                dateRangeResult',
                                IF ChronoReached(multipleDaysResult', dateRangeResult')
                                THEN chronoParse(processedText') ELSE <<>>,
                                startResult', endResult')
    /\ pc' = "done"
    /\ UNCHANGED request

\* the handler of scheduling-api.js, from the request to the response: it has no
\* relevance filter and no normalizer, and its bodies carry neither
\* preprocessed_text nor was_adjusted_to_future (NULL and FALSE here)
ParseLegacy ==
    /\ pc = "start"
    /\ processedText' = NULL
    /\ detectedTimezone' = IF text # NULL THEN detectTimezone(text) ELSE NULL
    /\ multipleDaysResult' =
          IF text # NULL THEN parseMultipleDays(text, detectedTimezone') ELSE NullResult
    /\ dateRangeResult' =
          IF text # NULL /\ multipleDaysResult'.isNull
          THEN LegacyParseDateRange(text, detectedTimezone')
          ELSE NullResult
    /\ startResult' =
          IF /\ text # NULL
             /\ ChronoReached(multipleDaysResult', dateRangeResult')
             /\ chronoParse(text) # <<>>
          THEN LegacyProcessChronoDate(chronoParse(text)[1].start, detectedTimezone')
          ELSE NoChronoDate
    /\ endResult' =
          IF ~startResult'.isNull /\ chronoParse(text)[1].hasEnd
          THEN LegacyProcessChronoDate(chronoParse(text)[1].end, detectedTimezone')
          ELSE NoChronoDate
    /\ calls' =
          IF text = NULL THEN <<>>
          ELSE ResolvedCalls(multipleDaysResult', dateRangeResult',
                             IF ChronoReached(multipleDaysResult', dateRangeResult')
                             THEN chronoParse(text) ELSE <<>>)
    /\ response' =
          IF text = NULL THEN Json(MissingTextBody)
          ELSE ResolvedResponse(text, text, detectedTimezone', multipleDaysResult',
                                dateRangeResult',
                                IF ChronoReached(multipleDaysResult', dateRangeResult')
                                THEN chronoParse(text) ELSE <<>>,
                                startResult', endResult')
    /\ pc' = "done"
    /\ UNCHANGED request

(***************************************************************************)
(* The state before a request is handled                                   *)
(***************************************************************************)
\* no response yet
NoResponse == [sent |-> FALSE]

NothingComputed ==
    /\ processedText = NULL
    /\ detectedTimezone = NULL
    /\ multipleDaysResult = NullResult
    /\ dateRangeResult = NullResult
    /\ startResult = NoChronoDate
    /\ endResult = NoChronoDate
    /\ calls = <<>>
    /\ response = NoResponse

(***************************************************************************)
(* The phrases detectTimezone is applied to                                *)
(***************************************************************************)
\* the largest hour count written into an offset
MaxOffsetHours == 15

\* the hour counts written into an offset, around the limits 12 and 14
OffsetHours == {0, 5, 9, 10, 12, 13, 14} \cup {MaxOffsetHours}

\* the minute counts written into an offset; -1: no minutes are written
OffsetMinutes == {-1, 0, 30, 99}

TzPre == { <<>>, <<"3","-","5"," ","p","m"," ">>, <<"2","p","m">> }

TzZone == { <<>>, S_utc, <<"G","M","T">> }

TzPost == { <<>>, <<" ","e","s","t">> }

(* A phrase is composed of: pre, a zone word, a gap, a sign, a gap, the    *)
(* hours h (two digits when padded), a colon, the minutes m, post.         *)
Phrase(pre, zone, gap, sign, signGap, h, padded, colon, m, post) ==
    [pre |-> pre, zone |-> zone, gap |-> gap, sign |-> sign, signGap |-> signGap,
     h |-> h, padded |-> padded, colon |-> colon, m |-> m, post |-> post]

Example(t) == Phrase(t, <<>>, <<>>, <<>>, <<>>, -1, FALSE, <<>>, -1, <<>>)

PhraseText(ph) ==
    Concat(<< ph.pre, ph.zone, ph.gap, ph.sign, ph.signGap,
              IF ph.h < 0 THEN <<>> ELSE IF ph.padded THEN Pad2(ph.h) ELSE NatToStr(ph.h),
              ph.colon,
              IF ph.m < 0 THEN <<>> ELSE Pad2(ph.m),
              ph.post >>)

OffsetPhrases ==
    { Phrase(pre, zone, gap, sign, signGap, h, padded, colon, m, post) :
        pre \in TzPre, zone \in TzZone, gap \in {<<>>, <<" ">>},
        sign \in {<<>>, <<"+">>, <<"-">>}, signGap \in {<<>>, <<" ">>},
        h \in OffsetHours, padded \in BOOLEAN, colon \in {<<>>, <<":">>},
        m \in OffsetMinutes, post \in TzPost }

\* one phrase for each text: no padding of two digits, no second gap without a sign
WellFormed(ph) ==
    /\ ph.padded => ph.h < 10
    /\ ph.sign = <<>> => ph.signGap = <<>>

TzExamples == { <<"m","e","e","t","i","n","g"," ","a","t"," ","9","a","m"," ","G","M","T","-","7">>,
    <<"c","o","n","f","e","r","e","n","c","e"," ","2","p","m"," ","a","u","s","t","r","a","l","i","a"," ","t","i","m","e">>,
    <<"3","-","5"," ","p","m"," ","e","s","t">>,
    <<"2","p","m"," ","e","s","t"," ","u","t","c","+","2">>,
    <<"u","t","c"," ","1","5"," ","g","m","t","+","2">>,
    <<"u","t","c","+","1","5"," ","g","m","t","+","2">>,
    <<"2","p","m"," ","b","e","s","t">>,
    <<"2","p","m"," ","e","s","t"," ","a","u","s","t","r","a","l","i","a">>,
    <<"c","a","l","l"," ","A","u","s","t","r","a","l","i","a"," ","5","p","m">>,
    <<"l","u","n","c","h"," ","a","t"," ","n","o","o","n">>,
    <<"m","e","e","t","i","n","g"," ","m","o","n","d","a","y"," ","1","0","a","m"," ","+","0","5","3","0">>,
    <<"c","a","l","l"," ","n","e","x","t"," ","w","e","e","k"," ","3","p","m"," ","-","0","7",":","0","0">>,
    <<"l","u","n","c","h"," ","f","r","i","d","a","y"," ","1","p","m"," ","-","7">> }

TzPhrases == { ph \in OffsetPhrases : WellFormed(ph) } \cup { Example(t) : t \in TzExamples }

(***************************************************************************)
(* detectTimezone applied to a phrase                                      *)
(***************************************************************************)
InitTz ==
    /\ phrase \in TzPhrases
    /\ text = PhraseText(phrase)
    /\ now = 0
    /\ localOffset = 0
    /\ chronoResults = ChronoGives(<<>>, <<>>)
    /\ pc = "start"
    /\ NothingComputed

CallDetectTimezone ==
    /\ pc = "start"
    /\ detectedTimezone' = detectTimezone(text)
    /\ pc' = "done"
    /\ UNCHANGED <<request, processedText, multipleDaysResult, dateRangeResult, startResult,
                   endResult, calls, response>>

NextTz == CallDetectTimezone

SpecTz == InitTz /\ [][NextTz]_vars

(***************************************************************************)
(* Claims about detectTimezone (checked under SpecTz)                      *)
(***************************************************************************)
Last(s) == s[Len(s)]

Min(S) == CHOOSE x \in S : \A y \in S : x <= y

ManualOffset(n) == S_UTC_OFFSET \o IntToStr(n)

\* the sign, hours and minutes a phrase was composed of
PhraseSign(ph) == IF ph.sign = <<>> THEN <<"+">> ELSE ph.sign

PhraseMinutes(ph) == IF ph.m < 0 THEN 0 ELSE ph.m

PhraseOffset(ph) ==
    (IF ph.sign = <<"-">> THEN -1 ELSE 1) * ((ph.h * 60) + PhraseMinutes(ph))

NoSignIn(s) == \A i \in DOMAIN s : s[i] \notin {"+", "-"}

\* C4: every manual offset detectTimezone returns is within UTC-12 .. UTC+14,
\* -720 <= n <= 840, whatever sign, hours and minutes were captured.
C4_ManualOffsetInRange ==
    (pc = "done" /\ IsManualOffset(detectedTimezone)) =>
        /\ ManualOffsetMinutes(detectedTimezone) >= -720
        /\ ManualOffsetMinutes(detectedTimezone) <= 840

\* a whole-hour offset written directly after the zone word: UTC+14, GMT-7
WholeHourPhrase(ph) ==
    /\ ph.zone # <<>> /\ ph.gap = <<>> /\ ph.sign # <<>> /\ ph.signGap = <<>>
    /\ ph.h >= 0 /\ ph.colon = <<>> /\ ph.m < 0
    /\ NoSignIn(ph.pre) /\ NoSignIn(ph.post)

WholeHourAccepted(ph) ==
    \/ ph.sign = <<"+">> /\ ph.h <= 14
    \/ ph.sign = <<"-">> /\ ph.h <= 12

\* C5: UTC<sign><h> and GMT<sign><h> give a manual offset exactly when
\* (sign is + and h <= 14) or (sign is - and h <= 12), and then sign * h * 60;
\* a rejected candidate does not end the scan: a later pattern still matches.
C5_WholeHourOffsetAcceptedInRange ==
    pc = "done" =>
        /\ WholeHourPhrase(phrase) =>
              IF WholeHourAccepted(phrase)
              THEN detectedTimezone = ManualOffset(PhraseOffset(phrase))
              ELSE ~IsManualOffset(detectedTimezone)
        /\ text \in {<<"u","t","c"," ","1","5"," ","g","m","t","+","2">>, <<"u","t","c","+","1","5"," ","g","m","t","+","2">>} =>
              detectedTimezone = ManualOffset(120)

C5_Witness ==
    /\ pc = "done"
    /\ WholeHourPhrase(phrase)
    /\ phrase.sign = <<"+">> /\ phrase.h = 14
    /\ detectedTimezone = ManualOffset(840)

C5_WitnessRejected ==
    /\ pc = "done"
    /\ WholeHourPhrase(phrase)
    /\ phrase.sign = <<"-">> /\ phrase.h = 13
    /\ ~IsManualOffset(detectedTimezone)

\* the zone word of the phrase starts at a word boundary
ZoneAtBoundary(ph) ==
    ph.zone # <<>> /\ (ph.pre = <<>> \/ ~IsWordChar(Last(ph.pre)))

\* the shapes an offset pattern matches with the sign, hours and minutes of the phrase
UnsignedForm(ph) ==
    /\ ZoneAtBoundary(ph) /\ ph.sign = <<>> /\ ph.gap # <<>>
    /\ ~(ph.colon = <<>> /\ ph.m >= 0)

SignedForm(ph) == ZoneAtBoundary(ph) /\ ph.sign # <<>>

StandaloneForm(ph) ==
    /\ ~ZoneAtBoundary(ph) /\ ph.sign # <<>> /\ ph.gap = <<>> /\ ph.signGap = <<>>
    /\ (ph.zone # <<>> \/ (ph.pre # <<>> /\ IsWordChar(Last(ph.pre))))
    /\ NoSignIn(ph.pre)

\* C6: an offset pattern that matches with sign s, hours h and minutes m that pass
\* the validation gives the manual offset s * (h * 60 + m); forms without a sign
\* use +; "meeting at 9am GMT-7" gives -420.
C6_OffsetIsSignedTotalMinutes ==
    pc = "done" =>
        /\ ( /\ phrase.h >= 0
             /\ UnsignedForm(phrase) \/ SignedForm(phrase) \/ StandaloneForm(phrase)
             /\ ~OffsetRejected(PhraseSign(phrase), phrase.h, PhraseMinutes(phrase)) )
           => detectedTimezone = ManualOffset(PhraseOffset(phrase))
        /\ text = <<"m","e","e","t","i","n","g"," ","a","t"," ","9","a","m"," ","G","M","T","-","7">> => detectedTimezone = ManualOffset(-420)

C6_Witness ==
    /\ pc = "done"
    /\ SignedForm(phrase) /\ phrase.sign = <<"-">> /\ phrase.h = 5 /\ phrase.m = 30
    /\ detectedTimezone = ManualOffset(-330)

C6_WitnessUnsigned ==
    /\ pc = "done"
    /\ UnsignedForm(phrase) /\ phrase.h = 5 /\ phrase.m = 30
    /\ detectedTimezone = ManualOffset(330)

\* the k-th offset pattern matches the text with an offset that passes the validation
ValidOffsetAt(lowerText, k) ==
    LET m == StrMatch(lowerText, offsetPatterns[k])
    IN  m.found /\ ~OffsetOfMatch(m, offsetPatterns[k].hasSign).rejected

\* C7: the result is a manual offset or a zone, never both, and the zone table
\* decides only when no offset pattern gave a valid offset: a text with a valid
\* offset match gets that offset (of the first such pattern), alias or not.
C7_OffsetBeforeNamedZone ==
    pc = "done" =>
        LET lowerText == toLowerCase(text)
            valid == {k \in DOMAIN offsetPatterns : ValidOffsetAt(lowerText, k)}
        IN  /\ valid # {} =>
                  LET k == Min(valid)
                  IN  detectedTimezone =
                        OffsetOfMatch(StrMatch(lowerText, offsetPatterns[k]),
                                      offsetPatterns[k].hasSign).value
            /\ valid = {} => ~IsManualOffset(detectedTimezone)
            /\ text = <<"3","-","5"," ","p","m"," ","e","s","t">> => detectedTimezone = ManualOffset(-300)
            /\ text = <<"2","p","m"," ","e","s","t"," ","u","t","c","+","2">> => detectedTimezone = ManualOffset(120)

C7_Witness ==
    /\ pc = "done"
    /\ text = <<"2","p","m"," ","e","s","t"," ","u","t","c","+","2">>
    /\ AliasTest(toLowerCase(text), <<"e","s","t">>)
    /\ detectedTimezone = ManualOffset(120)

\* the alias occurs in the text with no word character right before or after it
OccursAsWord(lowerText, alias) ==
    \E i \in 1..Len(lowerText) :
        /\ LitAt(lowerText, i, alias)
        /\ (i = 1 \/ ~IsWordChar(lowerText[i - 1]))
        /\ (i + Len(alias) > Len(lowerText) \/ ~IsWordChar(lowerText[i + Len(alias)]))

\* C8: when no offset pattern matches, the result is the zone of the first table
\* entry, in table order, whose alias occurs in the text as a whole word, whatever
\* the case of the letters, and none when no alias occurs.
C8_FirstAliasInTableOrder ==
    pc = "done" =>
        LET lowerText == toLowerCase(text)
            hits == {k \in DOMAIN timezoneMap : OccursAsWord(lowerText, timezoneMap[k].key)}
        IN  /\ (\A k \in DOMAIN offsetPatterns : ~StrMatch(lowerText, offsetPatterns[k]).found)
                => detectedTimezone =
                      IF hits = {} THEN NULL ELSE timezoneMap[Min(hits)].timezone
            /\ text = <<"c","o","n","f","e","r","e","n","c","e"," ","2","p","m"," ","a","u","s","t","r","a","l","i","a"," ","t","i","m","e">> => detectedTimezone = timezoneMap[1].timezone

C8_Witness ==
    /\ pc = "done"
    /\ text = <<"2","p","m"," ","e","s","t"," ","a","u","s","t","r","a","l","i","a">>
    /\ detectedTimezone = timezoneMap[1].timezone

C8_WitnessNone ==
    /\ pc = "done"
    /\ text = <<"2","p","m"," ","b","e","s","t">>
    /\ detectedTimezone = NULL

\* a sign and an offset with no zone word, a space between the word before and the
\* sign: "2pm +0530", "2pm -05:30", "2pm -5"
BareOffsetAfterSpace(ph) ==
    /\ ph.zone = <<>> /\ ph.pre # <<>> /\ NoSignIn(ph.pre) /\ ph.gap = <<" ">>
    /\ ph.sign # <<>> /\ ph.signGap = <<>> /\ ph.h >= 0
    /\ ~OffsetRejected(PhraseSign(ph), ph.h, PhraseMinutes(ph))

\* C25: a text without UTC or GMT that holds a signed offset standing alone after a
\* space gets that offset: "meeting monday 10am +0530" gives +330,
\* "call next week 3pm -07:00" and "lunch friday 1pm -7" give -420.
C25_BareOffsetAfterSpaceDetected ==
    pc = "done" =>
        /\ BareOffsetAfterSpace(phrase) => detectedTimezone = ManualOffset(PhraseOffset(phrase))
        /\ text = <<"m","e","e","t","i","n","g"," ","m","o","n","d","a","y"," ","1","0","a","m"," ","+","0","5","3","0">> => detectedTimezone = ManualOffset(330)
        /\ text = <<"c","a","l","l"," ","n","e","x","t"," ","w","e","e","k"," ","3","p","m"," ","-","0","7",":","0","0">> => detectedTimezone = ManualOffset(-420)
        /\ text = <<"l","u","n","c","h"," ","f","r","i","d","a","y"," ","1","p","m"," ","-","7">> => detectedTimezone = ManualOffset(-420)

\* what holds: the sign of a standalone offset has to follow a word character, so
\* after a space no offset is detected and the three texts get no zone at all
C25_BareOffsetAfterSpaceIgnored ==
    pc = "done" =>
        /\ BareOffsetAfterSpace(phrase) => ~IsManualOffset(detectedTimezone)
        /\ text \in { <<"m","e","e","t","i","n","g"," ","m","o","n","d","a","y"," ","1","0","a","m"," ","+","0","5","3","0">>, <<"c","a","l","l"," ","n","e","x","t"," ","w","e","e","k"," ","3","p","m"," ","-","0","7",":","0","0">>,
                      <<"l","u","n","c","h"," ","f","r","i","d","a","y"," ","1","p","m"," ","-","7">> } => detectedTimezone = NULL

\* and written directly after a word the same offset is detected
C25_BareOffsetAfterWordDetected ==
    (pc = "done" /\ text \in { <<"2","p","m","+","0","5","3","0">>, <<"2","p","m","-","0","5",":","3","0">>, <<"2","p","m","-","5">> }) =>
        detectedTimezone = ManualOffset(IF text = <<"2","p","m","+","0","5","3","0">> THEN 330
                                        ELSE IF text = <<"2","p","m","-","0","5",":","3","0">> THEN -330 ELSE -300)

(***************************************************************************)
(* The requests parseMultipleDays is applied to                            *)
(***************************************************************************)
\* the first day of the instants of a request: Monday 2026-11-02
FirstNowDay == DayNumber(2026, 11, 2)

\* the number of consecutive days the instants of a request are taken from
NowDayCount == 7

\* the times of day (UTC, in seconds) the instants of a request are taken from
NowSecondsOfDay == { (10 * 3600) + (30 * 60), (23 * 3600) + (30 * 60) }

NowInstants ==
    { ((FirstNowDay + d) * 86400) + s : d \in 0..(NowDayCount - 1), s \in NowSecondsOfDay }

\* the zones of the server: UTC, and UTC+5:30
LocalOffsets == {0, 330}

WeekTimes == { <<"1","0","p","m">>, <<"1","2","a","m">>, <<"1","3","p","m">> }

\* the zone named after the range: none, aliases of the table, manual offsets
WeekZones == { <<>>, <<" ","e","s","t">>, <<" ","a","u","s","t","r","a","l","i","a">>, <<" ","u","t","c","+","1","4">>, <<" ","u","t","c","-","1","2">> }

\* "available on <start> <time> to <end> <time><zone>"
WeekPhrase(startDayNum, timeText, endDayNum, zoneText) ==
    [pre |-> <<"a","v","a","i","l","a","b","l","e"," ","o","n"," ">>, startDayNum |-> startDayNum, time |-> timeText,
     endDayNum |-> endDayNum, zone |-> zoneText]

WeekExample(t) == [pre |-> t, startDayNum |-> -1, time |-> <<>>, endDayNum |-> -1, zone |-> <<>>]

WeekPhraseText(ph) ==
    IF ph.startDayNum < 0 THEN ph.pre
    ELSE Concat(<< ph.pre, DayNameOf(ph.startDayNum), <<" ">>, ph.time, <<" ","t","o"," ">>,
                   DayNameOf(ph.endDayNum), <<" ">>, ph.time, ph.zone >>)

WeekExamples == { <<"M","o","n","d","a","y"," ","9","a","m"," ","T","o"," ","F","r","i","d","a","y">>,
    <<"m","o","n","d","a","y"," ","t","o"," ","f","r","i","d","a","y">>,
    <<"m","o","n","d","a","y","s"," ","9","a","m"," ","t","o"," ","f","r","i","d","a","y">>,
    <<"f","r","i","d","a","y"," ","9",":","3","0"," ","p","m"," ","t","o"," ","t","o","m","o","r","r","o","w"," ","o","r"," ","t","o"," "," ","s","u","n","d","a","y"," ","u","t","c","+","5",":","3","0">>,
    <<"c","a","l","l"," ","a","t"," ","1","2","3","p","m"," ","o","n"," ","s","a","t","u","r","d","a","y"," "," "," ","t","o"," ","s","u","n","d","a","y">> }

\* every pair of weekdays at one time in two zones, and the ranges from Monday
\* and Tuesday to Thursday at every time in every zone, and the examples
WeekPhrases ==
    { WeekPhrase(s, <<"1","0","p","m">>, e, z) : s \in 0..6, e \in 0..6, z \in {<<>>, <<" ","e","s","t">>} }
        \cup { WeekPhrase(s, t, 4, z) : s \in {1, 2}, t \in WeekTimes, z \in WeekZones }
        \cup { WeekExample(t) : t \in WeekExamples }

(***************************************************************************)
(* parseMultipleDays applied to a request                                  *)
(***************************************************************************)
InitWeek ==
    /\ phrase \in WeekPhrases
    /\ text = WeekPhraseText(phrase)
    /\ now \in NowInstants
    /\ localOffset \in LocalOffsets
    /\ chronoResults = ChronoGives(<<>>, <<>>)
    /\ pc = "start"
    /\ NothingComputed

\* detectedTimezone = detectTimezone(text); parseMultipleDays(text, detectedTimezone)
CallParseMultipleDays ==
    /\ pc = "start"
    /\ detectedTimezone' = detectTimezone(text)
    /\ multipleDaysResult' = parseMultipleDays(text, detectedTimezone')
    /\ pc' = "done"
    /\ UNCHANGED <<request, processedText, dateRangeResult, startResult, endResult, calls,
                   response>>

NextWeek == CallParseMultipleDays

SpecWeek == InitWeek /\ [][NextWeek]_vars

(***************************************************************************)
(* Claims about parseMultipleDays (checked under SpecWeek)                 *)
(***************************************************************************)
\* the names of the weekdays, Sunday = 0 first
WeekdayNames == << <<"s","u","n","d","a","y">>, <<"m","o","n","d","a","y">>, <<"t","u","e","s","d","a","y">>, <<"w","e","d","n","e","s","d","a","y">>, <<"t","h","u","r","s","d","a","y">>,
                   <<"f","r","i","d","a","y">>, <<"s","a","t","u","r","d","a","y">> >>

\* the labels s, s+1, ..., e (mod 7)
LabelsFromTo(s, e) == [k \in 1..((((e - s) + 7) % 7) + 1) |-> WeekdayNames[((s + k - 1) % 7) + 1]]

SeriesLabels == [k \in DOMAIN multipleDaysResult.items |-> multipleDaysResult.items[k].day]

NoRepeat(seq) == \A i, j \in DOMAIN seq : i # j => seq[i] # seq[j]

WeekRangeDone == pc = "done" /\ phrase \in WeekPhrases /\ phrase.startDayNum >= 0

\* C9: the series of a weekday range from s to e is labelled s, s+1, ..., e
\* (mod 7) in that order, without a repeated weekday: ((e - s) mod 7) + 1
\* entries, at most 7, one when s = e; every series the walk returns is finite
\* with at most 7 entries.
C9_SeriesLabelsWalkStartToEnd ==
    /\ WeekRangeDone =>
          /\ ~multipleDaysResult.isNull
          /\ SeriesLabels = LabelsFromTo(phrase.startDayNum, phrase.endDayNum)
          /\ Len(SeriesLabels) = (((phrase.endDayNum - phrase.startDayNum) + 7) % 7) + 1
          /\ phrase.startDayNum = phrase.endDayNum => Len(SeriesLabels) = 1
    /\ pc = "done" /\ ~multipleDaysResult.isNull =>
          /\ Len(SeriesLabels) >= 1
          /\ Len(SeriesLabels) <= 7
          /\ NoRepeat(SeriesLabels)

\* Monday..Thursday was expanded to Monday, Tuesday, Wednesday, Thursday
C9_Witness ==
    /\ WeekRangeDone
    /\ phrase.startDayNum = 1
    /\ phrase.endDayNum = 4
    /\ SeriesLabels = << <<"m","o","n","d","a","y">>, <<"t","u","e","s","d","a","y">>, <<"w","e","d","n","e","s","d","a","y">>, <<"t","h","u","r","s","d","a","y">> >>

\* a range that wraps around the week, Saturday..Monday, was expanded
C9_WitnessWrap ==
    /\ WeekRangeDone
    /\ phrase.startDayNum = 6
    /\ phrase.endDayNum = 1
    /\ SeriesLabels = << <<"s","a","t","u","r","d","a","y">>, <<"s","u","n","d","a","y">>, <<"m","o","n","d","a","y">> >>

\* C10: every timestamp of a weekday-range series is at or after now, for
\* every zone (none, a named zone, a manual offset), after the zone conversion.
C10_SeriesNotBeforeNow ==
    pc = "done" /\ ~multipleDaysResult.isNull =>
        \A k \in DOMAIN multipleDaysResult.items :
            multipleDaysResult.items[k].unixTimestamp >= unixTimestamp(now)

\* without a zone the timestamps of a series are after now
C10_NoZoneSeriesAfterNow ==
    pc = "done" /\ ~multipleDaysResult.isNull /\ detectedTimezone = NULL =>
        \A k \in DOMAIN multipleDaysResult.items :
            multipleDaysResult.items[k].unixTimestamp > unixTimestamp(now)

\* the instant of an entry before the zone was applied: targetDate
NaiveInstantOf(e) ==
    IF e.timezoneInfo.isNull THEN e.jsDate
    ELSE IF e.timezoneInfo.isManualOffset THEN e.jsDate + (60 * e.timezoneInfo.offset)
    ELSE (e.jsDate + (60 * e.timezoneInfo.offset)) - (60 * localOffset)

WeekSeriesDone == pc = "done" /\ ~multipleDaysResult.isNull

\* the entry is on the weekday of its label, at the time read from the text, 1 to 7
\* days after now's date, and 7 days after it when now's weekday is the label's
OnNextLabelledWeekday(e) ==
    /\ WeekdayNames[getDay(NaiveInstantOf(e)) + 1] = e.day
    /\ LocalSecondOfDay(NaiveInstantOf(e)) =
           (hour24Of(timeMatch(text)) * 3600) + (MinuteOf(timeMatch(text)) * 60)
    /\ LocalDay(NaiveInstantOf(e)) - LocalDay(now) \in 1..7
    /\ WeekdayNames[getDay(now) + 1] = e.day =>
           LocalDay(NaiveInstantOf(e)) - LocalDay(now) = 7

\* the time read from the text is one of the 12-hour clock: 13pm is hour 25
TimeWithinTheDay == hour24Of(timeMatch(text)) <= 23 /\ MinuteOf(timeMatch(text)) <= 59

TimeOfDay(timeText, hour, minute) == [text |-> timeText, hour |-> hour, minute |-> minute]

T_9am == TimeOfDay(<<"9","a","m">>, 9, 0)
T_11am == TimeOfDay(<<"1","1","a","m">>, 11, 0)
T_3pm == TimeOfDay(<<"3","p","m">>, 15, 0)
T_5pm == TimeOfDay(<<"5","p","m">>, 17, 0)

\* the times of a request: a start, or a start and an end
GenericTimes ==
    { [start |-> T_9am, hasEnd |-> FALSE, end |-> T_9am],
      [start |-> T_3pm, hasEnd |-> FALSE, end |-> T_3pm],
      [start |-> T_9am, hasEnd |-> TRUE, end |-> T_11am],
      [start |-> T_3pm, hasEnd |-> TRUE, end |-> T_5pm] }

GenericKinds ==
    { "time", "today", "tomorrow", "weekday", "date", "timedate", "weekdaydate", "futuredate" }

GenericZones == { <<>>, <<" ","e","s","t">>, <<" ","u","t","c","+","1","4">> }

GenericPhrases ==
    { [kind |-> k, times |-> t, zone |-> z] : k \in GenericKinds, t \in GenericTimes,
                                              z \in GenericZones }

\* "<start>" or "<start> to <end>"
TimesText(t) == IF t.hasEnd THEN Concat(<< t.start.text, <<" ","t","o"," ">>, t.end.text >>) ELSE t.start.text

GenericPhraseText(ph) ==
    CASE ph.kind = "time"        -> Concat(<< TimesText(ph.times), ph.zone >>)
      [] ph.kind = "today"       -> Concat(<< <<"t","o","d","a","y"," ","a","t"," ">>, TimesText(ph.times), ph.zone >>)
      [] ph.kind = "tomorrow"    -> Concat(<< <<"t","o","m","o","r","r","o","w"," ","a","t"," ">>, TimesText(ph.times), ph.zone >>)
      [] ph.kind = "weekday"     -> Concat(<< <<"m","o","n","d","a","y"," ">>, TimesText(ph.times), ph.zone >>)
      [] ph.kind = "date"        ->
            Concat(<< <<"5"," ","m","a","r","c","h"," ","2","0","2","5"," ","a","t"," ">>, TimesText(ph.times), ph.zone >>)
      [] ph.kind = "timedate"    ->
            Concat(<< TimesText(ph.times), <<" ","o","n"," ","5"," ","m","a","r","c","h"," ","2","0","2","5">>, ph.zone >>)
      [] ph.kind = "weekdaydate" ->
            Concat(<< <<"w","e","d","n","e","s","d","a","y"," ","5"," ","m","a","r","c","h"," ","2","0","2","5"," ">>, TimesText(ph.times), ph.zone >>)
      [] ph.kind = "futuredate"  ->
            Concat(<< <<"5"," ","m","a","r","c","h"," ","2","0","2","7"," ","a","t"," ">>, TimesText(ph.times), ph.zone >>)

\* the Monday chrono reads from "monday": the one of the days from now's date on,
\* or the one of the days before it
MondaysNear(today) ==
    IF getDay(now) = 1 THEN {today}
    ELSE { today + (((1 - getDay(now)) + 7) % 7), (today + (((1 - getDay(now)) + 7) % 7)) - 7 }

\* the calendar days chrono can read from a phrase, as day numbers
ChronoDays(ph) ==
    CASE ph.kind \in {"time", "today"}                  -> {LocalDay(now)}
      [] ph.kind = "tomorrow"                           -> {LocalDay(now) + 1}
      [] ph.kind = "weekday"                            -> MondaysNear(LocalDay(now))
      [] ph.kind \in {"date", "timedate", "weekdaydate"} -> {DayNumber(2025, 3, 5)}
      [] ph.kind = "futuredate"                         -> {DayNumber(2027, 3, 5)}

ComponentsAt(day, t) == Components(YearOfDay(day), MonthOfDay(day), DateOfDay(day), t.hour, t.minute, 0)

\* a result of chrono.parse: the start, and the end when the text is a range
ChronoResult(day, times) ==
    [start |-> ComponentsAt(day, times.start), hasEnd |-> times.hasEnd,
     end |-> ComponentsAt(day, times.end)]

\* the results chrono.parse can give for the phrase
ChronoOutcomes(ph) == { << ChronoResult(day, ph.times) >> : day \in ChronoDays(ph) }

(***************************************************************************)
(* processChronoDate applied to a request                                  *)
(***************************************************************************)
InitGeneric ==
    /\ phrase \in GenericPhrases
    /\ text = GenericPhraseText(phrase)
    /\ now \in NowInstants
    /\ localOffset \in LocalOffsets
    /\ chronoResults \in { ChronoGives(r, r) : r \in ChronoOutcomes(phrase) }
    /\ pc = "start"
    /\ NothingComputed

\* const result = results[0]; startResult = processChronoDate(result.start, ...);
\* if (result.end) endResult = processChronoDate(result.end, ..., true, startResult.jsDate, ...)
CallProcessChronoDate ==
    /\ pc = "start"
    /\ chronoParse(text) # <<>>
    /\ detectedTimezone' = detectTimezone(text)
    /\ startResult' = processChronoDate(chronoParse(text)[1].start, detectedTimezone', FALSE,
                                        NoStartDate, text)
    /\ endResult' = IF chronoParse(text)[1].hasEnd
                    THEN processChronoDate(chronoParse(text)[1].end, detectedTimezone', TRUE,
                                           startResult'.jsDate, text)
                    ELSE NoChronoDate
    /\ pc' = "done"
    /\ UNCHANGED <<request, processedText, multipleDaysResult, dateRangeResult, calls, response>>

NextGeneric == CallProcessChronoDate

SpecGeneric == InitGeneric /\ [][NextGeneric]_vars

(***************************************************************************)
(* Claims about the generic path (checked under SpecGeneric)               *)
(***************************************************************************)
GenericDone == pc = "done" /\ ~startResult.isNull

\* C1: an instant resolved by the generic path (not the end of a range) whose
\* text is not anchored to "today" is at or after now.
C1_GenericStartNotBeforeNow ==
    GenericDone /\ ~Includes(toLowerCase(text), S_today) =>
        startResult.unixTimestamp >= unixTimestamp(now)

\* with "tomorrow" or "today" in the text the resolved instant is after now
C1_KeywordStartAfterNow ==
    GenericDone /\ phrase.kind \in {"today", "tomorrow"} =>
        startResult.unixTimestamp > unixTimestamp(now)

\* C2: when the generic result has an end, the end is strictly after the
\* start once both went through the zone conversion and adjustToFuture.
C2_GenericEndAfterStart ==
    GenericDone /\ ~endResult.isNull => endResult.unixTimestamp > startResult.unixTimestamp

(***************************************************************************)
(* The requests /parse is sent                                             *)
(***************************************************************************)
T_noon == TimeOfDay(<<"n","o","o","n">>, 12, 0)
T_1430 == TimeOfDay(<<"1","4",":","3","0">>, 14, 30)
T_9pm == TimeOfDay(<<"9"," ","P","m">>, 21, 0)
T_10pm == TimeOfDay(<<"1","0","p","m">>, 22, 0)
T_11pm == TimeOfDay(<<"1","1","p","m">>, 23, 0)

At(t) == [start |-> t, hasEnd |-> FALSE, end |-> t]

FromTo(t1, t2) == [start |-> t1, hasEnd |-> TRUE, end |-> t2]

\* a request: its text, what chrono reads from the text after the normalizer
\* (kind and times, as for the phrases of the generic parser; "none": nothing)
\* and what it reads from the text as it was sent (originalKind)
Request(t, kind, times, originalKind) ==
    [text |-> t, kind |-> kind, times |-> times, originalKind |-> originalKind]

Requests == {
    Request(<<>>, "none", At(T_noon), "none"),
    Request(<<"h","e","l","l","o">>, "none", At(T_noon), "none"),
    Request(<<"c","a","l","l"," ","m","e"," ","t","o","m","o","r","r","o","w">>, "tomorrow", At(T_noon), "tomorrow"),
    Request(<<"m","e","e","t","i","n","g"," ","u","t","c","+","2">>, "none", At(T_noon), "none"),
    Request(<<"9"," ","P","m">>, "time", At(T_9pm), "time"),
    Request(<<"t","o","m","o","r","r","o","w"," ","a","t"," ","3","p","m">>, "tomorrow", At(T_3pm), "tomorrow"),
    Request(<<"3","p","m"," ","e","s","t">>, "time", At(T_3pm), "time"),
    Request(<<" ","3","p","m"," ">>, "time", At(T_3pm), "time"),
    Request(<<"l","u","n","c","h"," ","a","t"," ","n","o","o","n">>, "time", At(T_noon), "time"),
    Request(<<"m","e","e","t","i","n","g"," ","a","t"," ","1","4",":","3","0">>, "time", At(T_1430), "time"),
    Request(<<"1","4","3","0","h","r","s">>, "none", At(T_1430), "none"),
    Request(<<"m","o","n","d","a","y"," ","9","a","m"," ","t","o"," ","1","1","a","m">>, "weekday", FromTo(T_9am, T_11am), "weekday"),
    Request(<<"5"," ","m","a","r","c","h"," ","2","0","2","5"," ","a","t"," ","9","a","m">>, "date", At(T_9am), "date"),
    Request(<<"1","1","p","m"," ","o","n"," ","2","3">>, "day23", At(T_11pm), "time"),
    Request(<<"a","v","a","i","l","a","b","l","e"," ","o","n"," ","m","o","n","d","a","y"," ","1","0","p","m"," ","t","o"," ","t","h","u","r","s","d","a","y"," ","1","0","p","m"," ","e","s","t">>, "weekday", At(T_10pm), "weekday"),
    Request(<<"a","v","a","i","l","a","b","l","e"," ","f","r","o","m"," ","1","5","t","h"," ","t","o"," ","2","0","t","h"," ","a","t"," ","1","0","p","m"," ","n","e","t","h","e","r","l","a","n","d","s">>, "time", At(T_10pm), "time"),
    Request(<<"2","0","t","h"," ","t","o"," ","1","5","t","h"," ","a","t"," ","1","0","p","m">>, "time", At(T_10pm), "time"),
    Request(<<"m","o","n","d","a","y"," ","t","o"," ","f","r","i","d","a","y"," ","1","5","t","h"," ","t","o"," ","2","0","t","h"," ","a","t"," ","1","0","p","m">>, "weekday", At(T_10pm), "weekday"),
    Request(<<"m","o","n","d","a","y"," ","t","o"," ","f","r","i","d","a","y"," ","a","t"," ","1","3","p","m"," ","e","s","t">>, "none", At(T_noon), "none"),
    Request(<<"1","5","t","h"," ","t","o"," ","2","0","t","h"," ","a","t"," ","1","3","p","m"," ","n","e","t","h","e","r","l","a","n","d","s">>, "none", At(T_noon), "none"),
    Request(<<"m","o","n","d","a","y"," ","1","0","p","m"," ","t","o"," ","t","h","u","r","s","d","a","y"," ","1","0","p","m"," ","u","t","c","+","2">>, "none", At(T_noon), "none"),
    Request(<<"1","5","t","h"," ","t","o"," ","2","0","t","h"," ","a","t"," ","1","0","p","m"," ","u","t","c","-","5">>, "none", At(T_noon), "none"),
    Request(<<"3","p","m"," ","u","t","c","+","2">>, "time", At(T_3pm), "time") }

\* the results chrono.parse can give for a reading of a request
OutcomesOf(kind, times) ==
    IF kind = "none" THEN { <<>> }
    ELSE IF kind = "day23"
    THEN { << ChronoResult(DayNumber(getFullYear(now), getMonth1(now), 23), times) >> }
    ELSE ChronoOutcomes([kind |-> kind, times |-> times])

\* chrono.parse for the two texts the handlers give it: the text of the request
\* and the text after the normalizer
ChronoForRequest(r) ==
    { ChronoGives(ro, rp) :
        ro \in OutcomesOf(r.originalKind, r.times), rp \in OutcomesOf(r.kind, r.times) }

(***************************************************************************)
(* The server: each request is answered by one of the two handlers         *)
(***************************************************************************)
Init ==
    /\ phrase \in Requests
    /\ text = phrase.text
    /\ now \in NowInstants
    /\ localOffset \in LocalOffsets
    /\ chronoResults \in ChronoForRequest(phrase)
    /\ pc = "start"
    /\ NothingComputed

Next == Parse \/ ParseLegacy

Spec == Init /\ [][Next]_vars

(***************************************************************************)
(* Claims about /parse (checked under Spec)                                *)
(***************************************************************************)
\* a text in which no time indicator matches
NoTimeIndicator == text # NULL /\ ~hasTimeForScheduling(text)

\* the normalizer, detectTimezone, the expanders and the generic parser
ParsingCalls == { "preprocessText", "detectTimezone", "parseMultipleDays", "parseDateRange",
                  "chrono.parse", "processChronoDate" }

NoParsingCall(log) == \A k \in DOMAIN log : log[k] \notin ParsingCalls

\* C3: a request whose text matches no time indicator is answered with the
\* not-scheduling-relevant result, and neither the normalizer, detectTimezone,
\* an expander nor the generic parser has been called for it.
C3_NoIndicatorAnsweredWithoutParsing ==
    pc = "done" /\ NoTimeIndicator =>
        /\ response = Json(NotRelevantBody(text))
        /\ NoParsingCall(calls)

\* the handler of part_000 answers such a request after the filter alone
C3_FilterOfPart000 ==
    [][Parse /\ NoTimeIndicator =>
          /\ response' = Json(NotRelevantBody(text))
          /\ calls' = << "hasTimeForScheduling" >>]_vars

\* the request has reached the resolvers
Resolved == pc = "done" /\ \E k \in DOMAIN calls : calls[k] = "parseMultipleDays"

\* the text the resolvers are given: the normalized text in part_000, the text of
\* the request in scheduling-api.js
ResolvedText == IF processedText # NULL THEN processedText ELSE text

Called(name) == \E k \in DOMAIN calls : calls[k] = name

\* name1 is not called after name2
NotAfter(name1, name2) ==
    \A i, j \in DOMAIN calls : calls[i] = name1 /\ calls[j] = name2 => i < j

\* the response is the series of an expander
AnsweredWithSeries(items, isRange) ==
    /\ response.status = 200
    /\ response.body.is_multiple_times
    /\ response.body.is_range = isRange
    /\ response.body.multiple_times = MultipleTimes(items)

\* C16: the resolvers are tried in the order weekday-range, date-range, generic
\* parser, and the first that matches produces the response: a text of both the
\* weekday-range and the date-range shape is answered by the weekday-range
\* expander, and the generic parser is called only when both expanders have
\* returned no match.
C16_ResolversInOrder ==
    Resolved =>
        /\ NotAfter("parseMultipleDays", "parseDateRange")
        /\ NotAfter("parseMultipleDays", "chrono.parse")
        /\ NotAfter("parseDateRange", "chrono.parse")
        /\ ~multipleDaysResult.isNull =>
              /\ AnsweredWithSeries(multipleDaysResult.items, FALSE)
              /\ ~Called("parseDateRange")
              /\ ~Called("chrono.parse")
        /\ multipleDaysResult.isNull /\ ~dateRangeResult.isNull =>
              /\ dateRangeResult.items # <<>> => AnsweredWithSeries(dateRangeResult.items, TRUE)
              /\ ~Called("chrono.parse")
        /\ Called("chrono.parse") =>
              /\ Called("parseDateRange")
              /\ multipleDaysResult.isNull
              /\ dateRangeResult.isNull
              /\ ~dateRangePattern(ResolvedText).matched

\* a text of both shapes was answered with the series of the weekday range
C16_Witness ==
    /\ Resolved
    /\ dateRangePattern(ResolvedText).matched
    /\ ~multipleDaysResult.isNull
    /\ AnsweredWithSeries(multipleDaysResult.items, FALSE)
    /\ Len(response.body.multiple_times) = 5
    /\ ~Called("parseDateRange")

\* no resolver has found a date: both expanders returned null and chrono nothing
NoDateFound ==
    /\ Resolved
    /\ multipleDaysResult.isNull
    /\ dateRangeResult.isNull
    /\ chronoParse(ResolvedText) = <<>>

\* the relevance filter was run and found no time indicator
NoTimeFound == Called("hasTimeForScheduling") /\ NoTimeIndicator

\* C18: a missing text parameter, no time indicator found and no date found by
\* any resolver are each answered with a JSON body that describes the negative
\* outcome, and never with an HTTP error response.
C18_InputProblemsAnsweredWithJson ==
    pc = "done" =>
        /\ text = NULL \/ NoTimeIndicator \/ NoDateFound =>
              response.sent /\ response.status = 200
        /\ text = NULL => response.body = MissingTextBody
        /\ NoTimeFound => response.body = NotRelevantBody(text)
        /\ NoDateFound =>
              /\ response.body.found_dates = FALSE
              /\ response.body.message = "No dates found in the text"
              /\ response.body.original_text = text

\* "1430hrs" passed the filter, no resolver found a date, and the answer was the
\* body that says so
C18_Witness ==
    /\ NoDateFound
    /\ Called("hasTimeForScheduling")
    /\ response = Json(NoDatesBody(processedText, text, detectedTimezone))

\* the series an expander has returned (no entries: neither has matched)
SeriesItems ==
    IF ~multipleDaysResult.isNull THEN multipleDaysResult.items
    ELSE IF ~dateRangeResult.isNull THEN dateRangeResult.items
    ELSE <<>>

\* the time of day the expander has read from the text
SeriesTime ==
    IF ~multipleDaysResult.isNull THEN timeMatch(ResolvedText)
    ELSE dateRangePattern(ResolvedText).time

\* the second of the day of hour24:minute:second, which carry over
SecondOfDay(hour24, minute, second) == ((hour24 * 3600) + (minute * 60) + second) % 86400

\* no zone is applied to the series: none was detected, or the named zone cannot
\* hold the time read from the text (13pm is hour 25)
SeriesWithoutZone ==
    /\ Resolved /\ SeriesItems # <<>>
    /\ \/ detectedTimezone = NULL
       \/ ~IsManualOffset(detectedTimezone) /\ hour24Of(SeriesTime) > 24

\* no zone is applied to the result of the generic parser: none was detected
ChronoWithoutZone == Resolved /\ ~startResult.isNull /\ detectedTimezone = NULL

\* the hour, minute and second chrono gave for the start
ChronoStart == chronoParse(ResolvedText)[1].start

C26_WitnessRange ==
    SeriesWithoutZone /\ ~dateRangeResult.isNull /\ detectedTimezone # NULL

C26_WitnessNoZone == SeriesWithoutZone /\ detectedTimezone = NULL

C26_WitnessChrono == ChronoWithoutZone /\ response.status = 200

\* C28: a series an expander returns has at least one entry, so that reading its
\* first entry never fails, and no request is answered with status 500: not
\* "20th to 15th at 10pm" either.
C28_SeriesNeverEmpty ==
    pc = "done" =>
        /\ ~multipleDaysResult.isNull => Len(multipleDaysResult.items) >= 1
        /\ ~dateRangeResult.isNull => Len(dateRangeResult.items) >= 1
        /\ response.status # 500

\* what holds: a weekday series has an entry, a date series has one exactly when the
\* first day is not after the last, and a date series without entries is the one
\* case answered with status 500
C28_EmptyDateSeriesFails ==
    pc = "done" =>
        /\ ~multipleDaysResult.isNull => Len(multipleDaysResult.items) >= 1
        /\ ~dateRangeResult.isNull =>
              (dateRangeResult.items = <<>>) <=>
                  (dateRangePattern(ResolvedText).startDay > dateRangePattern(ResolvedText).endDay)
        /\ response.status = 500 <=> (~dateRangeResult.isNull /\ dateRangeResult.items = <<>>)

\* the request was resolved with a manual offset
WithManualOffset == Resolved /\ detectedTimezone # NULL /\ IsManualOffset(detectedTimezone)

\* the second of the day of the instant t on a clock `minutes` east of UTC
SecondOfDayAt(t, minutes) == (t + (60 * minutes)) % 86400

\* C30: with a manual offset of m minutes the weekday-range expander, the date-range
\* expander and the generic path give the same kind of instant: the time of the text
\* read on the clock of UTC+m, whatever the zone of the server.
C30_ManualOffsetReadAtTheOffset ==
    WithManualOffset =>
        /\ \A k \in DOMAIN SeriesItems :
              SecondOfDayAt(SeriesItems[k].jsDate, ManualOffsetMinutes(detectedTimezone))
                  = SecondOfDay(hour24Of(SeriesTime), MinuteOf(SeriesTime), 0)
        /\ ~startResult.isNull =>
              SecondOfDayAt(startResult.jsDate, ManualOffsetMinutes(detectedTimezone))
                  = SecondOfDay(ChronoStart.hour, ChronoStart.minute, ChronoStart.second)

\* what holds: the generic path reads the time on the clock of UTC+m, and the
\* expanders read it on the clock of the server and then subtract m minutes, which
\* is the same when the server is at UTC
C30_ExpandersReadOnServerClock ==
    WithManualOffset =>
        /\ \A k \in DOMAIN SeriesItems :
              SecondOfDayAt(SeriesItems[k].jsDate,
                            ManualOffsetMinutes(detectedTimezone) + localOffset)
                  = SecondOfDay(hour24Of(SeriesTime), MinuteOf(SeriesTime), 0)
        /\ ~startResult.isNull =>
              SecondOfDayAt(startResult.jsDate, ManualOffsetMinutes(detectedTimezone))
                  = SecondOfDay(ChronoStart.hour, ChronoStart.minute, ChronoStart.second)

(***************************************************************************)
(* The requests parseDateRange is applied to                               *)
(***************************************************************************)
\* the first day of the instants of a request: Saturday 2026-11-14
FirstRangeNowDay == DayNumber(2026, 11, 14)

\* the number of consecutive days the instants of a request are taken from
RangeNowDayCount == 8

RangeNowInstants ==
    { ((FirstRangeNowDay + d) * 86400) + s : d \in 0..(RangeNowDayCount - 1),
                                              s \in NowSecondsOfDay }

T_12am == TimeOfDay(<<"1","2","a","m">>, 0, 0)
T_12pm == TimeOfDay(<<"1","2","p","m">>, 12, 0)
T_930am == TimeOfDay(<<"9",":","3","0"," ","A","M">>, 9, 30)

RangeTimes == { T_10pm, T_12am, T_12pm, T_930am }

\* the zone named after the range: none, an alias of the table, manual offsets
RangeZones == { <<>>, <<" ","n","e","t","h","e","r","l","a","n","d","s">>, <<" ","u","t","c","+","1","4">>, <<" ","u","t","c","-","1","2">> }

\* the first and the last day of a range
RangePairs == { <<15, 20>>, <<16, 18>>, <<17, 17>>, <<1, 3>>, <<30, 31>>, <<20, 15>> }

\* "<pre><a> to <b> at <time><zone>", the days with their ordinal suffix or bare
RangePhrase(pre, startDay, endDay, suffixed, time, zoneText) ==
    [pre |-> pre, startDay |-> startDay, endDay |-> endDay, suffixed |-> suffixed,
     time |-> time, zone |-> zoneText]

DayText(d, suffixed) == IF suffixed THEN NatToStr(d) \o OrdinalSuffix(d) ELSE NatToStr(d)

RangePhraseText(ph) ==
    Concat(<< ph.pre, DayText(ph.startDay, ph.suffixed), <<" ","t","o"," ">>,
              DayText(ph.endDay, ph.suffixed), <<" ","a","t"," ">>, ph.time.text, ph.zone >>)

\* every pair at every time in every zone, and the range 15..20 at 10pm with bare
\* day numbers, after "today" and after "tomorrow"
RangePhrases ==
    { RangePhrase(<<"a","v","a","i","l","a","b","l","e"," ","f","r","o","m"," ">>, p[1], p[2], TRUE, t, z) :
        p \in RangePairs, t \in RangeTimes, z \in RangeZones }
        \cup { RangePhrase(pre, 15, 20, FALSE, T_10pm, z) :
                 pre \in { <<>>, <<"t","o","d","a","y"," ">>, <<"t","o","m","o","r","r","o","w"," ">> }, z \in RangeZones }

(***************************************************************************)
(* parseDateRange applied to a request                                     *)
(***************************************************************************)
InitRange ==
    /\ phrase \in RangePhrases
    /\ text = RangePhraseText(phrase)
    /\ now \in RangeNowInstants
    /\ localOffset \in LocalOffsets
    /\ chronoResults = ChronoGives(<<>>, <<>>)
    /\ pc = "start"
    /\ NothingComputed

\* part_000: detectTimezone(text), then parseDateRange(text, detectedTimezone)
CallParseDateRange ==
    /\ pc = "start"
    /\ detectedTimezone' = detectTimezone(text)
    /\ dateRangeResult' = parseDateRange(text, detectedTimezone')
    /\ pc' = "done"
    /\ UNCHANGED <<request, processedText, multipleDaysResult, startResult, endResult, calls,
                   response>>

\* scheduling-api.js: detectTimezone(text), then parseDateRange(text, detectedTimezone)
CallLegacyParseDateRange ==
    /\ pc = "start"
    /\ detectedTimezone' = detectTimezone(text)
    /\ dateRangeResult' = LegacyParseDateRange(text, detectedTimezone')
    /\ pc' = "done"
    /\ UNCHANGED <<request, processedText, multipleDaysResult, startResult, endResult, calls,
                   response>>

\* the second handler of part_000: detectTimezone(text), then its parseDateRange
CallVariantParseDateRange ==
    /\ pc = "start"
    /\ detectedTimezone' = detectTimezone(text)
    /\ dateRangeResult' = VariantParseDateRange(text, detectedTimezone')
    /\ pc' = "done"
    /\ UNCHANGED <<request, processedText, multipleDaysResult, startResult, endResult, calls,
                   response>>

NextRange == CallParseDateRange \/ CallLegacyParseDateRange \/ CallVariantParseDateRange

SpecRange == InitRange /\ [][NextRange]_vars

(***************************************************************************)
(* Claims about parseDateRange (checked under SpecRange)                   *)
(***************************************************************************)
RangeDone == pc = "done" /\ phrase.startDay <= phrase.endDay

RangeLabels == [k \in DOMAIN dateRangeResult.items |-> dateRangeResult.items[k].day]

\* the days a, a + 1, ..., b
DaysFromTo(a, b) == [k \in 1..((b - a) + 1) |-> (a + k) - 1]

\* the second of the day an entry stands at: on the server's clock without a
\* zone, on the clock of its zone when the zone is named, and on the server's
\* clock before the offset was subtracted when the zone is a manual offset
EntrySecondOfDay(e) ==
    IF e.timezoneInfo.isNull THEN LocalSecondOfDay(e.jsDate)
    ELSE IF e.timezoneInfo.isManualOffset
    THEN LocalSecondOfDay(e.jsDate + (60 * e.timezoneInfo.offset))
    ELSE (e.jsDate + (60 * e.timezoneInfo.offset)) % 86400

\* C11: for "<a> to <b> at <time>" with a <= b the date-range expander returns
\* exactly b - a + 1 entries labelled a, a + 1, ..., b in ascending order, all
\* at the time of day of the phrase (10pm is 22:00, 12am is 00:00, 12pm is
\* 12:00).
C11_RangeEntriesLabelledAtTime ==
    RangeDone =>
        /\ ~dateRangeResult.isNull
        /\ Len(dateRangeResult.items) = (phrase.endDay - phrase.startDay) + 1
        /\ RangeLabels = DaysFromTo(phrase.startDay, phrase.endDay)
        /\ \A k \in DOMAIN dateRangeResult.items :
              EntrySecondOfDay(dateRangeResult.items[k])
                  = (3600 * phrase.time.hour) + (60 * phrase.time.minute)

\* "15th to 20th at 10pm" was expanded to six entries, 15..20, at 22:00
C11_Witness ==
    /\ RangeDone
    /\ phrase.startDay = 15
    /\ phrase.endDay = 20
    /\ phrase.time = T_10pm
    /\ RangeLabels = <<15, 16, 17, 18, 19, 20>>
    /\ \A k \in 1..6 : EntrySecondOfDay(dateRangeResult.items[k]) = 22 * 3600

\* C12: every timestamp of a date-range series is at or after now, for every
\* now within the month and every zone: a day of the span that has elapsed in
\* the current month is rolled to the same day of the next month.
C12_RangeNotBeforeNow ==
    pc = "done" /\ ~dateRangeResult.isNull =>
        \A k \in DOMAIN dateRangeResult.items :
            dateRangeResult.items[k].unixTimestamp >= unixTimestamp(now)

\* without a zone, the series of scheduling-api.js is not before now
C12_LegacyNoZoneNotBeforeNow ==
    [][CallLegacyParseDateRange /\ detectedTimezone' = NULL =>
          \A k \in DOMAIN dateRangeResult'.items :
              dateRangeResult'.items[k].unixTimestamp >= unixTimestamp(now)]_vars

\* the month after now's month
NextMonthOf(month) == (month % 12) + 1

\* the entry is, before the zone is applied, on the day of the month of its label, in
\* now's month or the month after it
OnLabelledDayOfMonth(e) ==
    /\ getDate(NaiveInstantOf(e)) = e.day
    /\ getMonth1(NaiveInstantOf(e)) \in { getMonth1(now), NextMonthOf(getMonth1(now)) }

\* C29: every entry of a date-range series is, before the zone is applied, on the day
\* of the month that is its label, in the current month or the month after it, for
\* every label, also 29..31 in a short month, and every now.
C29_EntriesOnLabelledDayOfMonth ==
    (pc = "done" /\ ~dateRangeResult.isNull) =>
        \A k \in DOMAIN dateRangeResult.items : OnLabelledDayOfMonth(dateRangeResult.items[k])

\* the label is a day of now's month
InNowsMonth(label) == label >= 1 /\ label <= MonthLengths[getMonth1(now)]

\* what holds of scheduling-api.js and of the second handler of part_000 in
\* November: a label that is a day of the month is kept, in November or December
C29_NextMonthKeepsLabel ==
    [][(CallLegacyParseDateRange \/ CallVariantParseDateRange) =>
          \A k \in DOMAIN dateRangeResult'.items :
              InNowsMonth(dateRangeResult'.items[k].day) =>
                  OnLabelledDayOfMonth(dateRangeResult'.items[k])]_vars

\* what holds of the first handler of part_000, for a text with neither "today" nor
\* "tomorrow": a day still to come is kept, and a day that is not after now is moved
\* to the day after it, one day off its label
C29_PastDayMovedByOneDay ==
    [][CallParseDateRange =>
          \A k \in DOMAIN dateRangeResult'.items :
              LET e == dateRangeResult'.items[k]
              IN  (InNowsMonth(e.day) /\ ~Includes(toLowerCase(text), S_today)
                                     /\ ~Includes(toLowerCase(text), S_tomorrow)) =>
                      \/ OnLabelledDayOfMonth(e) /\ NaiveInstantOf(e) > now
                      \/ /\ getDate(NaiveInstantOf(e) - 86400) = e.day
                         /\ NaiveInstantOf(e) - 86400 <= now]_vars

(***************************************************************************)
(* Claims about the series of both expanders (checked under SpecRange and  *)
(* SpecWeek)                                                               *)
(***************************************************************************)
\* for consecutive entries i and i + 1, timestamp(i) < timestamp(i + 1)
Chronological(items) ==
    \A i \in DOMAIN items :
        (i + 1) \in DOMAIN items => items[i].unixTimestamp < items[i + 1].unixTimestamp

\* C13: the entries of every series the weekday-range or the date-range expander
\* returns are in chronological order, each timestamp before the next, whatever
\* today's weekday or day of the month is.
C13_SeriesChronological ==
    pc = "done" =>
        /\ ~multipleDaysResult.isNull => Chronological(multipleDaysResult.items)
        /\ ~dateRangeResult.isNull => Chronological(dateRangeResult.items)

\* a range whose days are all still to come in the current month is in order
C13_ComingDaysChronological ==
    /\ pc = "done"
    /\ phrase.pre = <<"a","v","a","i","l","a","b","l","e"," ","f","r","o","m"," ">>
    /\ getDate(now) < phrase.startDay
    => Chronological(dateRangeResult.items)

(***************************************************************************)
(* The texts preprocessText is applied to                                  *)
(***************************************************************************)
\* the largest day number of a text
MaxDay == 31

\* the instants of a request: in November, and on the last evening of December
\* (January already for the server at UTC+5:30)
PreNowInstants ==
    { (DayNumber(2026, 11, 17) * 86400) + (10 * 3600) + (30 * 60),
      (DayNumber(2026, 12, 31) * 86400) + (23 * 3600) + (30 * 60) }

\* the shapes of a text about the day d of the month, each with the rule of the
\* normalizer that rewrites it first
PreShapes == { "time on day", "day time", "time day", "at time on day", "normalized" }

\* the suffix a text is written with: none, the ordinal suffix, or "th" whatever
\* the day is
PreSuffixes == { "none", "ordinal", "th" }

PrePhrase(shape, day, suffix) == [shape |-> shape, day |-> day, suffix |-> suffix, text |-> <<>>]

PreExample(t) == [shape |-> "example", day |-> 0, suffix |-> "none", text |-> t]

WrittenDay(ph) ==
    NatToStr(ph.day) \o (CASE ph.suffix = "none" -> <<>>
                           [] ph.suffix = "ordinal" -> OrdinalSuffix(ph.day)
                           [] ph.suffix = "th" -> <<"t","h">>)

PrePhraseText(ph) ==
    CASE ph.shape = "time on day" -> <<"1","1","p","m"," ","o","n"," ">> \o WrittenDay(ph)
      [] ph.shape = "day time" -> WrittenDay(ph) \o <<" ","1","1","p","m">>
      [] ph.shape = "time day" -> <<"1","1","p","m"," ">> \o WrittenDay(ph)
      [] ph.shape = "at time on day" -> <<"c","a","l","l"," ","a","t"," ","1","1","p","m"," ","o","n"," ">> \o WrittenDay(ph)
      [] ph.shape = "normalized" ->
            Concat(<< <<"1","1","p","m"," ","o","n"," ">>, WrittenDay(ph), <<" ","o","f"," ">>, currentMonthName >>)
      [] ph.shape = "example" -> ph.text

PreExamples == { <<"h","e","l","l","o">>, <<" ","t","o","m","o","r","r","o","w"," ","a","t"," ","3","p","m"," ">>, <<"1","1","P","M"," ","o","n"," ","2","3">>, <<"9",":","3","0"," ","a","m"," ","o","n"," ","2"," ","a","n","d"," ","5","p","m"," ","o","n"," ","3">>,
                 <<"m","e","e","t"," ","2","3"," ","1","1","p","m">>, <<"1","1","p","m"," ","2","3">>, <<"a","t"," ","1","1","p","m"," ","o","n"," ","1","2","3">> }

PrePhrases ==
    { PrePhrase(sh, d, sf) : sh \in PreShapes, d \in 1..MaxDay, sf \in PreSuffixes }
        \cup { PreExample(t) : t \in PreExamples }

(***************************************************************************)
(* preprocessText applied to a text                                        *)
(***************************************************************************)
InitPre ==
    /\ phrase \in PrePhrases
    /\ now \in PreNowInstants
    /\ localOffset \in LocalOffsets
    /\ text = PrePhraseText(phrase)
    /\ chronoResults = ChronoGives(<<>>, <<>>)
    /\ pc = "start"
    /\ NothingComputed

\* const text = preprocessText(originalText)
CallPreprocessText ==
    /\ pc = "start"
    /\ processedText' = preprocessText(text)
    /\ pc' = "done"
    /\ UNCHANGED <<request, detectedTimezone, multipleDaysResult, dateRangeResult, startResult,
                   endResult, calls, response>>

NextPre == CallPreprocessText

SpecPre == InitPre /\ [][NextPre]_vars

(***************************************************************************)
(* Claims about preprocessText (checked under SpecPre)                     *)
(***************************************************************************)
\* the ordinal suffix of the day d: "th" for 11, 12 and 13, otherwise by d mod 10
SuffixOfDay(d) ==
    IF d \in {11, 12, 13} THEN <<"t","h">>
    ELSE CASE d % 10 = 1 -> <<"s","t">>
           [] d % 10 = 2 -> <<"n","d">>
           [] d % 10 = 3 -> <<"r","d">>
           [] OTHER -> <<"t","h">>

\* the days the suffix is listed for, with the suffix of each
ListedSuffixes ==
    << <<1, <<"s","t">>>>, <<2, <<"n","d">>>>, <<3, <<"r","d">>>>, <<4, <<"t","h">>>>, <<11, <<"t","h">>>>,
       <<12, <<"t","h">>>>, <<13, <<"t","h">>>>, <<21, <<"s","t">>>>, <<22, <<"n","d">>>>, <<23, <<"r","d">>>>,
       <<30, <<"t","h">>>> >>

\* a rule that computes the suffix (the first, the second or the fourth) has
\* rewritten the text about the day d
SuffixComputed ==
    /\ pc = "done"
    /\ phrase.shape \in { "time on day", "day time", "at time on day", "normalized" }

\* what the normalized text about the day d starts with, up to the month
NormalizedDay(ph, suffix) ==
    Concat(<< IF ph.shape = "at time on day" THEN <<"c","a","l","l"," ","a","t"," ","1","1","p","m"," ","o","n"," ">> ELSE <<"1","1","p","m"," ","o","n"," ">>,
              NatToStr(ph.day), suffix, <<" ","o","f"," ">> >>)

\* C14: the suffix the normalizer appends to the day d (1..31) is "th" for 11, 12
\* and 13, otherwise "st", "nd", "rd" for d mod 10 = 1, 2, 3, otherwise "th"; for
\* d = 1, 2, 3, 4, 11, 12, 13, 21, 22, 23, 30 it is st, nd, rd, th, th, th, th,
\* st, nd, rd, th; the rules that compute it agree.
C14_OrdinalSuffixOfDay ==
    SuffixComputed =>
        /\ StartsWith(processedText, NormalizedDay(phrase, SuffixOfDay(phrase.day)))
        /\ \A k \in DOMAIN ListedSuffixes :
              phrase.day = ListedSuffixes[k][1] =>
                  StartsWith(processedText, NormalizedDay(phrase, ListedSuffixes[k][2]))

\* "23 11pm" was rewritten by the second rule with the suffix "rd", and
\* "call at 11pm on 12" by the first and the fourth with the suffix "th"
C14_Witness ==
    /\ SuffixComputed
    /\ \/ /\ phrase.shape = "day time"
          /\ phrase.day = 23
          /\ phrase.suffix = "none"
          /\ StartsWith(processedText, <<"1","1","p","m"," ","o","n"," ","2","3","r","d"," ","o","f"," ">>)
       \/ /\ phrase.shape = "at time on day"
          /\ phrase.day = 12
          /\ StartsWith(processedText, <<"c","a","l","l"," ","a","t"," ","1","1","p","m"," ","o","n"," ","1","2","t","h"," ","o","f"," ">>)

\* C15: preprocessText is idempotent on its own output: normalizing the
\* normalized text again gives the same text, with no second " of <Month>" and
\* no second suffix.
C15_NormalizerIdempotent ==
    pc = "done" => preprocessText(processedText) = processedText

\* a text no rule matches is its own normal form
C15_UnmatchedTextIdempotent ==
    pc = "done" /\ processedText = trim(text) => preprocessText(processedText) = processedText

\* preprocessText has been applied to "call at 11pm on <day>", the day written with
\* or without a suffix
AtTimeOnDayDone == pc = "done" /\ phrase.shape = "at time on day"

\* "call at 11pm on <day><suffix> of <current month>"
AtTimeOnDayNormalized ==
    Concat(<< NormalizedDay(phrase, SuffixOfDay(phrase.day)), currentMonthName >>)

\* C24: one pass of preprocessText over "at <time> on <day>" gives
\* "at <time> on <day><suffix> of <current month>": the leading "at" is kept, and the
\* suffix and the month are written once.
C24_AtTimeOnDayNormalizedOnce ==
    AtTimeOnDayDone => processedText = AtTimeOnDayNormalized

\* what holds: the "at" is kept and the suffix is written once, and the month is
\* written twice, by the first rule and again by the fourth
C24_MonthWrittenTwice ==
    AtTimeOnDayDone =>
        processedText = Concat(<< AtTimeOnDayNormalized, <<" ","o","f"," ">>, currentMonthName >>)

(***************************************************************************)
(* The handler of part_000 step by step, with a clock that advances        *)
(***************************************************************************)
\* the seconds the clock can advance by while a request is handled
MaxClockAdvance == 2

\* the instants a request arrives at: the last second of November, and a morning
ClockNowInstants ==
    { (DayNumber(2026, 11, 30) * 86400) + 86399,
      (DayNumber(2026, 11, 17) * 86400) + (10 * 3600) + (30 * 60) }

InitClock ==
    /\ phrase \in Requests
    /\ text = phrase.text
    /\ now \in ClockNowInstants
    /\ localOffset \in LocalOffsets
    /\ chronoResults \in ChronoForRequest(phrase)
    /\ pc = "start"
    /\ NothingComputed

\* const now = new Date() in the function step: the value of the clock it reads
Observed(step) == [step |-> step, now |-> now]

\* the early returns: no text, no time indicator
StepFilter ==
    /\ pc = "start"
    /\ ~Relevant
    /\ response' = IF text = NULL THEN Json(MissingTextBody) ELSE Json(NotRelevantBody(text))
    /\ pc' = "done"
    /\ UNCHANGED <<request, processedText, detectedTimezone, multipleDaysResult,
                   dateRangeResult, startResult, endResult, calls>>

\* preprocessText(originalText), which reads the clock for the month
StepPreprocessText ==
    /\ pc = "start"
    /\ Relevant
    /\ processedText' = preprocessText(text)
    /\ calls' = Append(calls, Observed("preprocessText"))
    /\ pc' = "parseMultipleDays"
    /\ UNCHANGED <<request, detectedTimezone, multipleDaysResult, dateRangeResult,
                   startResult, endResult, response>>

\* detectTimezone(text) and parseMultipleDays(text, detectedTimezone), which reads
\* the clock once the text has matched
StepParseMultipleDays ==
    /\ pc = "parseMultipleDays"
    /\ detectedTimezone' = detectTimezone(processedText)
    /\ multipleDaysResult' = parseMultipleDays(processedText, detectedTimezone')
    /\ calls' = IF multipleDaysResult'.isNull THEN calls
                ELSE Append(calls, Observed("parseMultipleDays"))
    /\ response' = IF multipleDaysResult'.isNull THEN response
                   ELSE SeriesResponse(multipleDaysResult'.items, FALSE, processedText, text,
                                       detectedTimezone')
    /\ pc' = IF multipleDaysResult'.isNull THEN "parseDateRange" ELSE "done"
    /\ UNCHANGED <<request, processedText, dateRangeResult, startResult, endResult>>

\* parseDateRange(text, detectedTimezone), which reads the clock once the text has
\* matched, as adjustToFuture does for each day
StepParseDateRange ==
    /\ pc = "parseDateRange"
    /\ dateRangeResult' = parseDateRange(processedText, detectedTimezone)
    /\ calls' = IF dateRangeResult'.isNull THEN calls
                ELSE IF dateRangeResult'.items = <<>>
                THEN Append(calls, Observed("parseDateRange"))
                ELSE calls \o << Observed("parseDateRange"), Observed("adjustToFuture") >>
    /\ response' = IF dateRangeResult'.isNull THEN response
                   ELSE SeriesResponse(dateRangeResult'.items, TRUE, processedText, text,
                                       detectedTimezone)
    /\ pc' = IF dateRangeResult'.isNull THEN "chrono.parse" ELSE "done"
    /\ UNCHANGED <<request, processedText, detectedTimezone, multipleDaysResult, startResult,
                   endResult>>

\* chrono.parse(text) and processChronoDate for the start and the end, each of
\* which calls adjustToFuture, which reads the clock
StepProcessChronoDate ==
    /\ pc = "chrono.parse"
    /\ startResult' =
          IF chronoParse(processedText) # <<>>
          THEN processChronoDate(chronoParse(processedText)[1].start, detectedTimezone, FALSE,
                                 NoStartDate, text)
          ELSE NoChronoDate
    /\ endResult' =
          IF ~startResult'.isNull /\ chronoParse(processedText)[1].hasEnd
          THEN processChronoDate(chronoParse(processedText)[1].end, detectedTimezone, TRUE,
                                 startResult'.jsDate, text)
          ELSE NoChronoDate
    /\ calls' = IF startResult'.isNull THEN calls ELSE Append(calls, Observed("adjustToFuture"))
    /\ response' = ResolvedResponse(processedText, text, detectedTimezone, multipleDaysResult,
                                    dateRangeResult, chronoParse(processedText), startResult',
                                    endResult')
    /\ pc' = "done"
    /\ UNCHANGED <<request, processedText, detectedTimezone, multipleDaysResult,
                   dateRangeResult>>

\* a second passes between two steps of the handler
Tick ==
    /\ pc \in { "parseMultipleDays", "parseDateRange", "chrono.parse" }
    /\ now - calls[1].now < MaxClockAdvance
    /\ now' = now + 1
    /\ UNCHANGED <<text, phrase, localOffset, chronoResults, pc, processedText,
                   detectedTimezone, multipleDaysResult, dateRangeResult, startResult,
                   endResult, calls, response>>

NextClock ==
    \/ StepFilter
    \/ StepPreprocessText
    \/ StepParseMultipleDays
    \/ StepParseDateRange
    \/ StepProcessChronoDate
    \/ Tick

SpecClock == InitClock /\ [][NextClock]_vars

(***************************************************************************)
(* Claims about the clock (checked under SpecClock)                        *)
(***************************************************************************)
\* C17: within one resolution the current instant is read once: the normalizer,
\* the expanders and the future policy all use the same value of now, so that no
\* two of them observe different instants when the clock advances meanwhile.
C17_NowReadOnce ==
    \A i, j \in DOMAIN calls : calls[i].now = calls[j].now

\* when the clock has not advanced, all the steps have read the same instant
C17_SteadyClockReadAlike ==
    calls # <<>> /\ now = calls[1].now => \A i \in DOMAIN calls : calls[i].now = now

\* and hence the same current month, on the server's calendar
C17_SameMonthObserved ==
    \A i, j \in DOMAIN calls : getMonth1(calls[i].now) = getMonth1(calls[j].now)

(***************************************************************************)
(* The instants adjustToFuture is applied to                               *)
(***************************************************************************)

\* the texts: "tomorrow" alone and together with "today", a weekday and a leading
\* time; "today" likewise; and texts with neither word: a weekday, a time alone, a
\* date before a time and a time before a date
AdjustTexts ==
    { <<"t","o","m","o","r","r","o","w"," ","a","t"," ","3","p","m">>, <<"T","o","d","a","y"," ","o","r"," ","T","o","m","o","r","r","o","w"," ","3","p","m">>, <<"m","o","n","d","a","y"," ","t","o","m","o","r","r","o","w"," ","3","p","m">>,
      <<"3","p","m"," ","t","o","m","o","r","r","o","w">>, <<"t","o","d","a","y"," ","a","t"," ","3","p","m">>, <<"3","p","m"," ","T","o","d","a","y">>, <<"m","o","n","d","a","y"," ","t","o","d","a","y"," ","3","p","m">>,
      <<"m","o","n","d","a","y"," ","3","p","m">>, <<"3","p","m">>, <<"5"," ","m","a","r","c","h"," ","a","t"," ","9","a","m">>,
      <<"3","p","m"," ","o","n"," ","5","t","h"," ","o","f"," ","m","a","r","c","h">> }

\* jsDate minus now, in seconds: more than a week ago, a day ago, earlier today, a
\* second ago, now, in a second, later today, in a day, in more than two days
AdjustDeltas ==
    { 0 - ((8 * 86400) + 4523), 0 - 86400, 0 - 10800, 0 - 1, 0, 1, 10800, 86400,
      (2 * 86400) + 4507 }

\* the start of a result, the end of a result without a start, the end of a range
\* that starts an hour after now, and the end of a range an hour long, whose start
\* went through adjustToFuture as the start of a chrono result does
AdjustRoles == { "start", "end without start", "end", "end of an hour" }

AdjustNowInstants == PreNowInstants \cup ClockNowInstants

AdjustPhrase(t, delta, role) == [text |-> t, delta |-> delta, role |-> role]

AdjustPhrases ==
    { AdjustPhrase(t, delta, role) : t \in AdjustTexts, delta \in AdjustDeltas,
                                     role \in AdjustRoles }

\* the arguments of the call
AdjustJsDate == now + phrase.delta
AdjustIsEndDate == phrase.role # "start"
AdjustStartDateArg ==
    IF phrase.role = "end" THEN now + 3600
    ELSE IF phrase.role = "end of an hour"
    THEN adjustToFuture(AdjustJsDate - 3600, text, FALSE, NoStartDate)
    ELSE NoStartDate

\* the same for the second handler of part_000
VariantStartDateArg ==
    IF phrase.role = "end" THEN now + 3600
    ELSE IF phrase.role = "end of an hour"
    THEN VariantAdjustToFuture(AdjustJsDate - 3600, text, FALSE, NoStartDate)
    ELSE NoStartDate

InitAdjust ==
    /\ phrase \in AdjustPhrases
    /\ now \in AdjustNowInstants
    /\ localOffset \in LocalOffsets
    /\ text = phrase.text
    /\ chronoResults = ChronoGives(<<>>, <<>>)
    /\ pc = "start"
    /\ NothingComputed

\* let finalDate = adjustToFuture(timezoneAdjustedDate, originalText, isEndDate, startDate)
CallAdjustToFuture ==
    /\ pc = "start"
    /\ startResult' = AdjustChronoDate(AdjustJsDate, NoTimezoneInfo, AdjustIsEndDate,
                                       AdjustStartDateArg, text)
    /\ pc' = "variant"
    /\ UNCHANGED <<request, processedText, detectedTimezone, multipleDaysResult,
                   dateRangeResult, endResult, calls, response>>

\* let adjustedDate = adjustToFuture(initialDate, originalText, isEndDate, startDate),
\* in the second handler of part_000
CallVariantAdjustToFuture ==
    /\ pc = "variant"
    /\ endResult' = ChronoDateResult(AdjustJsDate, NoTimezoneInfo,
                                     VariantAdjustToFuture(AdjustJsDate, text, AdjustIsEndDate,
                                                           VariantStartDateArg))
    /\ pc' = "done"
    /\ UNCHANGED <<request, processedText, detectedTimezone, multipleDaysResult,
                   dateRangeResult, startResult, calls, response>>

NextAdjust == CallAdjustToFuture \/ CallVariantAdjustToFuture

SpecAdjust == InitAdjust /\ [][NextAdjust]_vars

(***************************************************************************)
(* Claims about adjustToFuture (checked under SpecAdjust)                  *)
(***************************************************************************)

AdjustDone == pc = "done"

\* the call is not the end of a range: isEndDate && startDate is false
NotEndOfRange == ~(AdjustIsEndDate /\ AdjustStartDateArg # NoStartDate)

SaysTomorrow == Includes(toLowerCase(text), S_tomorrow)
SaysToday == Includes(toLowerCase(text), S_today)

\* the result is on the day `days` after now's day, at the time of day of jsDate
OnDayAtTimeOfJsDate(days) ==
    /\ LocalDay(startResult.jsDate) = LocalDay(now) + days
    /\ LocalSecondOfDay(startResult.jsDate) = LocalSecondOfDay(AdjustJsDate)

\* C19: for an instant that is not the end of a range and a text containing
\* "tomorrow", adjustToFuture returns the day after now's day at the instant's time of
\* day, for an instant in the past as for one in the future, and whatever else the
\* text contains ("today", a weekday, a leading time).
C19_TomorrowIsTheDayAfterNow ==
    (AdjustDone /\ NotEndOfRange /\ SaysTomorrow) => OnDayAtTimeOfJsDate(1)

\* an instant of the past with a text that says "today" and "tomorrow", and one of
\* the future with a weekday and "tomorrow", are answered with tomorrow
C19_Witness ==
    /\ AdjustDone /\ NotEndOfRange /\ SaysTomorrow /\ OnDayAtTimeOfJsDate(1)
    /\ \/ SaysToday /\ AdjustJsDate < now
       \/ dayOfWeekPattern(toLowerCase(text)) /\ AdjustJsDate > now + 86400

\* the time of day of jsDate is still to come on now's day
TimeOfDayToCome == LocalSecondOfDay(AdjustJsDate) > LocalSecondOfDay(now)

\* C20: for an instant that is not the end of a range and a text containing "today"
\* and not "tomorrow", adjustToFuture returns now's day at the instant's time of day
\* when that is after now and the day after when it is not; the result is after now
\* and not later than the day after now's day.
C20_TodayOrTheDayAfter ==
    (AdjustDone /\ NotEndOfRange /\ SaysToday /\ ~SaysTomorrow) =>
        /\ OnDayAtTimeOfJsDate(IF TimeOfDayToCome THEN 0 ELSE 1)
        /\ startResult.jsDate > now
        /\ LocalDay(startResult.jsDate) <= LocalDay(now) + 1

\* a time of day that is exactly now's is moved to the day after
C20_Witness ==
    /\ AdjustDone /\ NotEndOfRange /\ SaysToday /\ ~SaysTomorrow
    /\ LocalSecondOfDay(AdjustJsDate) = LocalSecondOfDay(now)
    /\ OnDayAtTimeOfJsDate(1)

SaysNeither == ~SaysToday /\ ~SaysTomorrow

\* C21: for an instant that is not the end of a range and a text containing neither
\* "today" nor "tomorrow", adjustToFuture returns the instant itself whenever the
\* instant is now or later.
C21_NotBeforeNowUnchanged ==
    (AdjustDone /\ NotEndOfRange /\ SaysNeither /\ AdjustJsDate >= now) =>
        startResult.jsDate = AdjustJsDate

\* what holds of the first handler: an instant after now is returned unchanged, and
\* an instant equal to now is moved as one before now is
C21_AfterNowUnchanged ==
    (AdjustDone /\ NotEndOfRange /\ SaysNeither) =>
        /\ AdjustJsDate > now => startResult.jsDate = AdjustJsDate
        /\ AdjustJsDate = now => startResult.jsDate > AdjustJsDate

\* what holds of the second handler: an instant not more than an hour before now is
\* returned unchanged, whatever the text
C21_VariantWithinTheHourUnchanged ==
    (AdjustDone /\ NotEndOfRange /\ AdjustJsDate >= now - 3600) =>
        endResult.jsDate = AdjustJsDate

\* the text is a time and nothing else: \d{1,2}(:\d{2})?\s*(am|pm) from its first to
\* its last character, spaces around it aside
NothingButATime ==
    /\ TimeAt(trim(toLowerCase(text)), 1).matched
    /\ TimeAt(trim(toLowerCase(text)), 1).end = Len(trim(toLowerCase(text))) + 1

\* an instant not after now, of a text without "today", "tomorrow" or a weekday
PastWithoutKeyword ==
    /\ AdjustDone /\ NotEndOfRange /\ SaysNeither
    /\ AdjustJsDate <= now
    /\ ~dayOfWeekPattern(toLowerCase(text))

\* C22: an instant in the past is given today's or tomorrow's date only when the text
\* is a time and nothing else; with a text that carries a date ("3pm on 5th of march")
\* the instant keeps its date and is moved by the default rule, one day forward.
C22_DatedTextMovedByDefaultRule ==
    (PastWithoutKeyword /\ ~NothingButATime) => startResult.jsDate = AddDays(AdjustJsDate, 1)

\* what holds: a text that is a time and nothing else gets today's date at that time
\* when it is still to come and tomorrow's when it is not
C22_TimeAloneTodayOrTomorrow ==
    (PastWithoutKeyword /\ NothingButATime) =>
        /\ OnDayAtTimeOfJsDate(IF TimeOfDayToCome THEN 0 ELSE 1)
        /\ startResult.jsDate > now

\* and so does every text that begins with a time, whatever follows it
C22_LeadingTimeTodayOrTomorrow ==
    (PastWithoutKeyword /\ timeOnlyPattern(trim(toLowerCase(text)))) =>
        OnDayAtTimeOfJsDate(IF TimeOfDayToCome THEN 0 ELSE 1)

\* the call is the end of a range: isEndDate && startDate
EndOfRange == AdjustDone /\ ~NotEndOfRange

\* C23: for the end of a range, adjustToFuture returns an instant that is after the
\* start's and not before now, also when the start was itself moved forward.
C23_EndAfterStartAndNotBeforeNow ==
    EndOfRange =>
        /\ startResult.jsDate > AdjustStartDateArg
        /\ startResult.jsDate >= now

\* the same of the second handler, which pushes by weeks
C23_VariantEndAfterStartAndNotBeforeNow ==
    EndOfRange =>
        /\ endResult.jsDate > VariantStartDateArg
        /\ endResult.jsDate >= now

\* what holds of the first handler: the end is pushed once, by one day, when it is
\* not after the start or is before now, and is returned unchanged otherwise
C23_EndPushedOnce ==
    EndOfRange =>
        startResult.jsDate =
            IF AdjustJsDate <= AdjustStartDateArg \/ AdjustJsDate < now
            THEN AdjustJsDate + 86400
            ELSE AdjustJsDate

\* what holds of the second handler: an end not after the start is pushed once, by
\* one week; an end after the start is not before now when it is returned
C23_VariantEndPushedOnceOrToNow ==
    EndOfRange =>
        IF AdjustJsDate <= VariantStartDateArg
        THEN endResult.jsDate = AdjustJsDate + (7 * 86400)
        ELSE /\ endResult.jsDate >= now
             /\ endResult.jsDate > VariantStartDateArg
             /\ (endResult.jsDate - AdjustJsDate) % (7 * 86400) = 0

====
